---- MODULE Spec2Model ----
(***************************************************************************)
(* Protocol detectors of examples/protocol_detector: the time-domain       *)
(* ProtocolDetector (src/detector.rs) and the ProtocolDetectorFFT          *)
(* (src/protocol_detector_fft.rs), each as one block between an upstream   *)
(* producer and per-protocol downstream lanes.                             *)
(*                                                                         *)
(* Samples are complex numbers with integer parts <<re, im>>.  f32         *)
(* arithmetic is modelled by exact arithmetic: a norm is kept as the       *)
(* integer under its square root, a correlation as num / sqrt(den2), and   *)
(* "correlation >= threshold" is decided exactly on these.                 *)
(* Source indices are 0-based and kept so; At and Slice translate them to  *)
(* TLA+ sequences.                                                         *)
(***************************************************************************)
EXTENDS Integers, Sequences, FiniteSets, TLC

VARIABLES
    variant,            \* "time": ProtocolDetector, "fft": ProtocolDetectorFFT
    stream,             \* every sample the upstream block has produced so far
    in_finished,        \* sio.input(0).finished()
    consumed,           \* samples the runtime has taken out of the input buffer
    lanes,              \* per output lane: the samples committed downstream
    tags,               \* per output lane: the tags added, by lane position
    current_protocol,   \* self.current_protocol
    current_index,      \* ProtocolDetector.current_index
    absolute_index,     \* ProtocolDetectorFFT.absolute_index
    norm_queue,         \* ProtocolDetectorFFT.norm_queue (|x|^2 values)
    running_sum,        \* ProtocolDetectorFFT.running_sum
    match_log,          \* records written to the match log file
    finished,           \* io.finished
    crashed,            \* "none", "exit" (exit(1)) or "panic"
    hits,               \* history: the stream position of each logged match
    cls,                \* history: current_protocol when a sample was classified
    config,             \* the arguments of new: protocols and sync_sequence
    constructed,        \* the outcome of new: "pending", "ok", "invalid", "panic"
    \* MultiPortInserter (src/multi_port_inserter.rs) and its streams
    port_len,           \* per input port: the samples upstream has produced
    port_consumed,      \* per input port: the samples the block has consumed
    port_tags,          \* per input port: the NamedUsize tags in the buffer
    port_finished,      \* per input port: sio.input(i).finished()
    output,             \* the samples committed to the output "out"
    current_port,       \* self.current_port (current_sequence is the same)
    inserting_sequence, \* self.inserting_sequence
    sequence_index,     \* self.sequence_index
    packet_length,      \* self.packet_length
    consumed_input,     \* self.consumed_input
    insertion_index,    \* self.insertion_index
    samples_after_sequence, \* self.samples_after_sequence
    port_order,         \* self.port_order
    ins_finished,       \* io.finished of the inserter
    ins_crashed,        \* "none" or "panic"
    bursts,             \* history: the tags selected, in order
    waited,             \* history: per port, bursts of others while its tag waits
    \* a function of the detectors applied on its own
    args,               \* the arguments handed to the function
    result,             \* <<>> or <<what the function returned>>
    \* the generator of the tests: SimpleTagInserter feeding
    \* MultiProtocolInserter (tests/test_multi_protocol_inserter.rs)
    tag_inserter,       \* SimpleTagInserter: counter, interval, protocols
    tagged,             \* the tagged samples SimpleTagInserter has produced
    tag_finished,       \* io.finished of SimpleTagInserter
    protocol_inserter,  \* MultiProtocolInserter: its fields
    taken,              \* samples MultiProtocolInserter has consumed
    generated,          \* the samples MultiProtocolInserter has produced
    generator_finished  \* io.finished of MultiProtocolInserter

(* the MultiPortInserter and its streams *)
insvars == <<port_len, port_consumed, port_tags, port_finished, output,
             current_port, inserting_sequence, sequence_index, packet_length,
             consumed_input, insertion_index, samples_after_sequence,
             port_order, ins_finished, ins_crashed, bursts, waited>>

(* the generator of the tests and its streams *)
genvars == <<tag_inserter, tagged, tag_finished, protocol_inserter, taken,
             generated, generator_finished>>

(* the variables that the work of a detector never touches *)
othervars == <<config, constructed, insvars, args, result, genvars>>

(* the detectors and their streams *)
detvars == <<variant, stream, in_finished, consumed, lanes, tags,
             current_protocol, current_index, absolute_index, norm_queue,
             running_sum, match_log, finished, crashed, hits, cls>>

vars == <<variant, stream, in_finished, consumed, lanes, tags,
          current_protocol, current_index, absolute_index, norm_queue,
          running_sum, match_log, finished, crashed, hits, cls, othervars>>

----------------------------------------------------------------------------
(* Bounds of the model *)

MaxStream == 9
MaxSpace == 10
MaxFairStream == 7

(* Configuration: the sequences handed to the constructors *)

Zero == <<0, 0>>
J == <<0, 1>>
Samples == {Zero, J}

ThrNum == 3
ThrDen == 4

----------------------------------------------------------------------------
(* Helpers for 0-based indexing and saturating arithmetic *)

At(s, i) == s[i + 1]
Slice(s, a, b) == SubSeq(s, a + 1, b)
SatSub(a, b) == IF a > b THEN a - b ELSE 0
Min2(a, b) == IF a <= b THEN a ELSE b

RECURSIVE SumSeq(_)
SumSeq(s) == IF s = <<>> THEN 0 ELSE Head(s) + SumSeq(Tail(s))

norm_sqr(x) == x[1] * x[1] + x[2] * x[2]

RECURSIVE SumNormSqr(_)
SumNormSqr(data) ==
    IF data = <<>> THEN 0 ELSE norm_sqr(Head(data)) + SumNormSqr(Tail(data))

(* Sequence::new: norm = sqrt(sum |x|^2), kept as the number under the root *)
NewSequence(data) ==
    [data |-> data, thr_num |-> ThrNum, thr_den |-> ThrDen,
     norm |-> [sq |-> SumNormSqr(data), rooted |-> TRUE]]

SyncSequence == NewSequence(<<J, J>>)

(* The protocols as declared by the caller: one discriminator each.       *)
(* Protocols 1 and 2 declare the same discriminator.                      *)
Protocols ==
    [p \in 0..2 |->
        [name |-> p,
         sequences |-> <<NewSequence(IF p = 0 THEN <<J, J>> ELSE <<J, Zero>>)>>]]

NumProtocols == Cardinality(DOMAIN Protocols)
Lanes == DOMAIN Protocols

(* ProtocolDetector::new prepends the sync sequence to every protocol *)
ProtocolsTD ==
    [p \in Lanes |->
        [name |-> Protocols[p].name,
         sequences |-> <<SyncSequence>> \o Protocols[p].sequences]]

(* ProtocolDetector::new: sequence_lengths and total_protocol_length *)
sequence_lengths_td ==
    [k \in DOMAIN ProtocolsTD[0].sequences |-> Len(ProtocolsTD[0].sequences[k].data)]

total_protocol_length_td == SumSeq(sequence_lengths_td)

(* ProtocolDetectorFFT::new: sequence_lengths *)
sequence_lengths_fft ==
    [k \in DOMAIN Protocols[0].sequences |-> Len(Protocols[0].sequences[k].data)]

(* the arguments of new as far as validate_protocols looks at them: per  *)
(* protocol the lengths of its sequences, and the length of the sync      *)
(* sequence as an Option (<<>> is None)                                   *)
DeclaredConfig ==
    [protocols |-> [k \in 1..NumProtocols |->
                       [j \in DOMAIN Protocols[k - 1].sequences |->
                           Len(Protocols[k - 1].sequences[j].data)]],
     sync |-> <<Len(SyncSequence.data)>>]

----------------------------------------------------------------------------
(* Values of f32 results *)

(* a norm value: sqrt(sq) when rooted, sq itself otherwise *)
NormSquared(n) == IF n.rooted THEN n.sq ELSE n.sq * n.sq
NormIsZero(n) == n.sq = 0

(* a correlation value num / sqrt(den2); 0 / sqrt(0) is the NaN of f32 *)
CorrValue(num, den2) == [num |-> num, den2 |-> den2]

(* correlation >= num/den, for a threshold num/den >= 0; NaN >= x is false *)
AtLeast(c, num, den) ==
    /\ c.den2 > 0
    /\ c.num >= 0
    /\ den * den * c.num * c.num >= num * num * c.den2

(* sum of a[k] * conj(b[k]) *)
RECURSIVE DotConj(_, _)
DotConj(a, b) ==
    IF a = <<>> \/ b = <<>> THEN <<0, 0>>
    ELSE LET x == Head(a)
             y == Head(b)
             r == DotConj(Tail(a), Tail(b))
         IN <<x[1] * y[1] + x[2] * y[2] + r[1], x[2] * y[1] - x[1] * y[2] + r[2]>>

Values(samples) == [k \in DOMAIN samples |-> samples[k].v]

----------------------------------------------------------------------------
(* The stream runtime, as the blocks use it: slice() is the part of the   *)
(* buffer not yet consumed (produced) in this work call, consume() and    *)
(* produce() advance it, and the runtime commits both after work returns. *)

(* sio.input(0).slice() after n samples were consumed in this call; each  *)
(* sample carries its value v and, as history, its stream position at     *)
(* (0-based)                                                              *)
InputSlice(n) ==
    [k \in 1..SatSub(Len(stream) - consumed, n) |->
        [v |-> stream[consumed + n + k], at |-> consumed + n + k - 1]]

(* a slot of an output buffer that the block has not written *)
Unwritten == [v |-> <<0, 0>>, at |-> -1]

(* the memory behind sio.output(p).slice() at the start of a work call *)
OutputMemory(space) == [p \in Lanes |-> [k \in 1..space[p] |-> Unwritten]]

(* dst[start .. start + |src|).copy_from_slice(src) *)
RECURSIVE Reverse(_)
Reverse(s) == IF s = <<>> THEN <<>> ELSE Append(Reverse(Tail(s)), Head(s))

(* a faulty variant of CopyFromSlice: the source is copied back to front *)
CopyReversed(dst, start, src) ==
    SubSeq(dst, 1, start) \o Reverse(src) \o SubSeq(dst, start + Len(src) + 1, Len(dst))

CopyFromSlice(dst, start, src) ==
    SubSeq(dst, 1, start) \o src \o SubSeq(dst, start + Len(src) + 1, Len(dst))

(* what the runtime commits to a lane: the first n samples of its memory *)
Commit(lane, mem, n) == lane \o SubSeq(mem, 1, n)

min_output_len(space) ==
    CHOOSE m \in {space[p] : p \in Lanes} : \A p \in Lanes : m <= space[p]

----------------------------------------------------------------------------
(* ProtocolDetector (time domain) *)

RECURSIVE RollNormVector(_, _, _, _, _)
RollNormVector(input, window_length, i, window_sum, norm_vector) ==
    IF i > Len(input) - window_length THEN norm_vector
    ELSE LET s == window_sum - norm_sqr(At(input, i - 1).v)
                    + norm_sqr(At(input, i + window_length - 1).v)
         IN RollNormVector(input, window_length, i + 1, s,
                           Append(norm_vector, [sq |-> s, rooted |-> TRUE]))

calculate_norm_vector(input, window_length) ==
    IF Len(input) < window_length THEN <<>>
    ELSE LET window_sum == SumNormSqr(Values(Slice(input, 0, window_length)))
         IN RollNormVector(input, window_length, 1, window_sum,
                           <<[sq |-> window_sum, rooted |-> TRUE]>>)

(* ProtocolDetector::normalized_dot_product *)
normalized_dot_product_td(seq1, seq1_norm, seq2) ==
    IF NormIsZero(seq1_norm) \/ NormIsZero(seq2.norm)
    THEN IF NormIsZero(seq1_norm) /\ NormIsZero(seq2.norm)
         THEN CorrValue(1, 1) ELSE CorrValue(0, 1)
    ELSE CorrValue(DotConj(Values(seq1), seq2.data)[1],
                   NormSquared(seq1_norm) * NormSquared(seq2.norm))

RECURSIVE MatchSequences(_, _, _, _, _, _)
MatchSequences(input, input_norms, start_index, protocol, seq_index, current_offset) ==
    IF seq_index > Len(protocol.sequences) THEN TRUE
    ELSE LET sequence == protocol.sequences[seq_index]
             sequence_length == sequence_lengths_td[seq_index]
             from == start_index + current_offset
         IN IF from + sequence_length > Len(input) THEN FALSE
            ELSE LET correlation ==
                         normalized_dot_product_td(
                             Slice(input, from, from + sequence_length),
                             At(input_norms, from), sequence)
                 IN IF ~AtLeast(correlation, sequence.thr_num, sequence.thr_den)
                    THEN FALSE
                    ELSE MatchSequences(input, input_norms, start_index, protocol,
                                        seq_index + 1, current_offset + sequence_length)

match_protocol(input, input_norms, start_index, protocol) ==
    MatchSequences(input, input_norms, start_index, protocol, 1, 0)

(* Option::None of a search that found nothing *)
NoMatch == -1

(* a faulty variant of MatchedProtocols: the loop without its break *)
RECURSIVE MatchedProtocolsNoBreak(_, _, _, _)
MatchedProtocolsNoBreak(input, input_norms, i, protocol_index) ==
    IF protocol_index >= NumProtocols THEN <<>>
    ELSE (IF match_protocol(input, input_norms, i, ProtocolsTD[protocol_index])
          THEN <<protocol_index>> ELSE <<>>)
         \o MatchedProtocolsNoBreak(input, input_norms, i, protocol_index + 1)

(* the inner loop of work, "for (protocol_index, protocol) in protocols": *)
(* the protocols, in declaration order, whose "if matched" branch runs;   *)
(* the branch ends with break                                             *)
RECURSIVE MatchedProtocols(_, _, _, _)
MatchedProtocols(input, input_norms, i, protocol_index) ==
    IF protocol_index >= NumProtocols THEN <<>>
    ELSE IF match_protocol(input, input_norms, i, ProtocolsTD[protocol_index])
         THEN <<protocol_index>>
         ELSE MatchedProtocols(input, input_norms, i, protocol_index + 1)

(* a faulty variant of OnMatch: the tag is added at every match *)
OnMatchAlwaysTag(st, input, i, p) ==
    LET switched == p # st.current_protocol
    IN [st EXCEPT
          !.current_protocol = p,
          !.matches = IF switched THEN Append(@, <<p, i>>) ELSE @,
          !.new_tags = Append(@, [lane |-> p, index |-> i, name |-> p]),
          !.log = Append(@, [index |-> st.current_index, name |-> p]),
          !.hits = Append(@, [at |-> At(input, i).at, protocol |-> p])]

(* the "if matched" branch for protocol p at window start i; the tag     *)
(* name p stands for the string "<name of protocol p> Start"              *)
OnMatch(st, input, i, p) ==
    LET switched == p # st.current_protocol
    IN [st EXCEPT
          !.current_protocol = p,
          !.matches = IF switched THEN Append(@, <<p, i>>) ELSE @,
          !.new_tags = IF switched
                       THEN Append(@, [lane |-> p, index |-> i, name |-> p])
                       ELSE @,
          !.log = Append(@, [index |-> st.current_index, name |-> p]),
          !.hits = Append(@, [at |-> At(input, i).at, protocol |-> p])]

RECURSIVE OnMatches(_, _, _, _)
OnMatches(st, input, i, matched) ==
    IF matched = <<>> THEN st
    ELSE OnMatches(OnMatch(st, input, i, Head(matched)), input, i, Tail(matched))

(* a faulty variant of MaxProcessTD: the output space is not looked at *)
MaxProcessTDUnclamped(input_len, space) ==
    SatSub(SatSub(input_len, total_protocol_length_td - 1), 1)

MaxProcessTD(input_len, space) ==
    SatSub(Min2(SatSub(input_len, total_protocol_length_td - 1),
                min_output_len(space)), 1)

(* one iteration of "for i in 0..max_process" *)
ScanStepTD(st, input, input_norms, i) ==
    LET after == OnMatches(st, input, i, MatchedProtocols(input, input_norms, i, 0))
    IN [after EXCEPT
          !.current_index = @ + 1,
          !.cls = Append(@, after.current_protocol)]

RECURSIVE ScanTD(_, _, _, _, _)
ScanTD(st, input, input_norms, i, max_process) ==
    IF i >= max_process THEN st
    ELSE ScanTD(ScanStepTD(st, input, input_norms, i), input, input_norms,
                i + 1, max_process)

(* a faulty variant of RouteStep: the span is copied but not counted *)
RouteStepUncounted(rt, input, from_protocol, from_index, next_index) ==
    LET output_len == next_index - from_index
        start_idx == rt.output_status[from_protocol]
    IN [mem |-> [rt.mem EXCEPT ![from_protocol] =
                    CopyFromSlice(@, start_idx, Slice(input, from_index, next_index))],
        output_status |-> [rt.output_status EXCEPT ![from_protocol] = @ + output_len],
        consumed |-> rt.consumed,
        panic |-> rt.panic]

(* one step of "for window in matches.windows(2)" *)
RouteStep(rt, input, from_protocol, from_index, next_index) ==
    LET output_len == next_index - from_index
        start_idx == rt.output_status[from_protocol]
    IN [mem |-> [rt.mem EXCEPT ![from_protocol] =
                    CopyFromSlice(@, start_idx, Slice(input, from_index, next_index))],
        output_status |-> [rt.output_status EXCEPT ![from_protocol] = @ + output_len],
        consumed |-> rt.consumed + output_len,
        panic |-> rt.panic \/ start_idx + output_len > Len(rt.mem[from_protocol])
                           \/ next_index > Len(input)]

(* a faulty variant of RouteTD: each span goes to the lane of the match  *)
(* that ends it                                                          *)
RECURSIVE RouteToNextLane(_, _, _, _)
RouteToNextLane(rt, input, matches, k) ==
    IF k >= Len(matches) THEN rt
    ELSE RouteToNextLane(RouteStep(rt, input, matches[k + 1][1], matches[k][2],
                                   matches[k + 1][2]),
                         input, matches, k + 1)

RECURSIVE RouteTD(_, _, _, _)
RouteTD(rt, input, matches, k) ==
    IF k >= Len(matches) THEN rt
    ELSE RouteTD(RouteStep(rt, input, matches[k][1], matches[k][2], matches[k + 1][2]),
                 input, matches, k + 1)

(* a faulty variant of DrainTD: finished is set although input remains *)
DrainTDEarly(max_process, input_len, out_len) ==
    IF max_process = 0 /\ in_finished
    THEN IF input_len > 0
         THEN (IF out_len > 0 THEN "drain" ELSE "finish")
         ELSE "finish"
    ELSE "nothing"

(* lines 276-295 of work: what the block does when max_process == 0 and  *)
(* the input is finished                                                  *)
DrainTD(max_process, input_len, out_len) ==
    IF max_process = 0 /\ in_finished
    THEN IF input_len > 0
         THEN (IF out_len > 0 THEN "drain" ELSE "nothing")
         ELSE "finish"
    ELSE "nothing"

(* lines 352-357 of work: the exit check, consume and produce, and the   *)
(* writes to the fields of the block                                      *)
FinishTD(drain, scan, rt, max_process) ==
    LET cp0 == current_protocol
        drained == IF drain = "drain" THEN 1 ELSE 0
        offset == [p \in Lanes |->
                     rt.output_status[p] + (IF p = cp0 THEN drained ELSE 0)]
        TagsOf(p) == SelectSeq(scan.new_tags, LAMBDA t : t.lane = p)
    IN IF rt.panic
       THEN /\ crashed' = "panic"
            /\ UNCHANGED <<othervars, variant, stream, in_finished, consumed, lanes,
                           tags, current_protocol, current_index, absolute_index,
                           norm_queue, running_sum, match_log, finished, hits, cls>>
       ELSE IF rt.consumed # max_process
       THEN /\ crashed' = "exit"
            /\ UNCHANGED <<othervars, variant, stream, in_finished, consumed, lanes,
                           tags, current_protocol, current_index, absolute_index,
                           norm_queue, running_sum, match_log, finished, hits, cls>>
       ELSE /\ consumed' = consumed + drained + rt.consumed
            /\ lanes' = [p \in Lanes |-> Commit(lanes[p], rt.mem[p], offset[p])]
            /\ tags' = [p \in Lanes |->
                          tags[p] \o
                          [k \in DOMAIN TagsOf(p) |->
                             [index |-> Len(lanes[p])
                                          + (IF p = cp0 THEN drained ELSE 0)
                                          + TagsOf(p)[k].index,
                              name |-> TagsOf(p)[k].name]]]
            /\ current_protocol' = scan.current_protocol
            /\ current_index' = scan.current_index
            /\ match_log' = match_log \o scan.log
            /\ hits' = hits \o scan.hits
            /\ cls' = cls \o (IF drain = "drain" THEN <<cp0>> ELSE <<>>) \o scan.cls
            /\ finished' = (drain = "finish")
            /\ UNCHANGED <<othervars, variant, stream, in_finished, absolute_index,
                           norm_queue, running_sum, crashed>>

(* a faulty variant of RouteAllTD: the drained sample goes to the first  *)
(* lane instead of the lane of current_protocol                           *)
RouteAllTDDrainToFirst(space, input, drain, scan, max_process) ==
    RouteTD([mem |-> IF drain = "drain"
                     THEN [OutputMemory(space) EXCEPT ![0] =
                              CopyFromSlice(@, 0, <<At(input, 0)>>)]
                     ELSE OutputMemory(space),
             output_status |-> [p \in Lanes |-> 0],
             consumed |-> 0,
             panic |-> FALSE],
            input, Append(scan.matches, <<scan.current_protocol, max_process>>), 1)

(* lines 335-351 of work: the routing of the spans between the matches,  *)
(* into output slices that hold the drained sample, if any                *)
RouteAllTD(space, input, drain, scan, max_process) ==
    RouteTD([mem |-> IF drain = "drain"
                     THEN [OutputMemory(space) EXCEPT ![current_protocol] =
                              CopyFromSlice(@, 0, <<At(input, 0)>>)]
                     ELSE OutputMemory(space),
             output_status |-> [p \in Lanes |-> 0],
             consumed |-> 0,
             panic |-> FALSE],
            input, Append(scan.matches, <<scan.current_protocol, max_process>>), 1)

(* lines 304-333 of work: the scan of the window starts *)
SearchTD(input, input_norms, max_process) ==
    ScanTD([current_protocol |-> current_protocol,
            matches |-> <<<<current_protocol, 0>>>>,
            new_tags |-> <<>>,
            log |-> <<>>,
            current_index |-> current_index,
            hits |-> <<>>,
            cls |-> <<>>],
           input, input_norms, 0, max_process)

SearchedTD(space, input, drain, scan, max_process) ==
    FinishTD(drain, scan, RouteAllTD(space, input, drain, scan, max_process),
             max_process)

SizedTD(space, input, max_process) ==
    SearchedTD(space, input,
               DrainTD(max_process, Len(input), space[current_protocol]),
               SearchTD(input,
                        calculate_norm_vector(
                            input, Len(ProtocolsTD[0].sequences[1].data)),
                        max_process),
               max_process)

(* ProtocolDetector::work with the output space the runtime offers *)
WorkTime(space) ==
    /\ variant = "time"
    /\ ~finished
    /\ crashed = "none"
    /\ SizedTD(space, InputSlice(0), MaxProcessTD(Len(InputSlice(0)), space))

(* lines 312-330 of work when the write of log_sequence_match fails at   *)
(* the first match of the scan: "?" returns the error from work, after    *)
(* current_index counted the window starts before the match and           *)
(* current_protocol was set; nothing is consumed or produced               *)
FailedTD(scan) ==
    /\ scan.log # <<>>
    /\ crashed' = "error"
    /\ current_index' = scan.log[1].index
    /\ current_protocol' = scan.hits[1].protocol
    /\ UNCHANGED <<othervars, variant, stream, in_finished, consumed, lanes,
                   tags, absolute_index, norm_queue, running_sum, match_log,
                   finished, hits, cls>>

SizedFailedTD(input, max_process) ==
    FailedTD(SearchTD(input,
                      calculate_norm_vector(
                          input, Len(ProtocolsTD[0].sequences[1].data)),
                      max_process))

(* ProtocolDetector::work in which the match log cannot be written *)
WorkTimeLogFails(space) ==
    /\ variant = "time"
    /\ ~finished
    /\ crashed = "none"
    /\ SizedFailedTD(InputSlice(0), MaxProcessTD(Len(InputSlice(0)), space))

----------------------------------------------------------------------------
(* ProtocolDetectorFFT *)

(* a faulty variant of NormLoop: the value popped from the queue is not *)
(* taken off running_sum                                                 *)
RECURSIVE NormLoopKeepOld(_, _, _, _)
NormLoopKeepOld(st, window, sequence_length, i) ==
    IF i >= Len(window) - sequence_length THEN st
    ELSE LET new_val == norm_sqr(At(window, i + sequence_length - 1).v)
             popped == st.norm_queue # <<>>
             sum == IF popped THEN st.running_sum + new_val ELSE st.running_sum
             queue == IF popped THEN Tail(st.norm_queue) ELSE st.norm_queue
         IN NormLoopKeepOld([norms |-> Append(st.norms, [sq |-> sum, rooted |-> TRUE]),
                             norm_queue |-> Append(queue, new_val),
                             running_sum |-> sum],
                            window, sequence_length, i + 1)

(* the loop of update_norm_vector *)
RECURSIVE NormLoop(_, _, _, _)
NormLoop(st, window, sequence_length, i) ==
    IF i >= Len(window) - sequence_length THEN st
    ELSE LET new_val == norm_sqr(At(window, i + sequence_length - 1).v)
             popped == st.norm_queue # <<>>
             sum == IF popped
                    THEN st.running_sum - Head(st.norm_queue) + new_val
                    ELSE st.running_sum
             queue == IF popped THEN Tail(st.norm_queue) ELSE st.norm_queue
         IN NormLoop([norms |-> Append(st.norms, [sq |-> sum, rooted |-> TRUE]),
                      norm_queue |-> Append(queue, new_val),
                      running_sum |-> sum],
                     window, sequence_length, i + 1)

update_norm_vector(queue, sum, window, sequence_length) ==
    IF queue = <<>>
    THEN LET initial == [k \in 1..sequence_length |-> norm_sqr(window[k].v)]
             total == SumSeq(initial)
         IN NormLoop([norms |-> <<[sq |-> total, rooted |-> FALSE]>>,
                      norm_queue |-> initial,
                      running_sum |-> total],
                     window, sequence_length, 1)
    ELSE NormLoop([norms |-> <<>>, norm_queue |-> queue, running_sum |-> sum],
                  window, sequence_length, 0)

(* Sequence_fft::new: the sync sequence zero-padded to twice its length *)
PaddedSequence(data) == data \o [k \in 1..Len(data) |-> Zero]

SyncPadded == PaddedSequence(SyncSequence.data)

(* bin i of ifft(fft(window) * conj(fft(sync))) divided by its length n:  *)
(* the circular cross-correlation sum_k window[(i + k) mod n] * conj(s[k]) *)
CircularCorrelationOf(window, i, padded) ==
    DotConj([k \in 1..Len(window) |-> window[((i + k - 1) % Len(window)) + 1].v],
            padded)

CircularCorrelation(window, i) == CircularCorrelationOf(window, i, SyncPadded)

(* normalized_corr of bin i in fft_corr_normalized, for a detector whose  *)
(* sync sequence is sequence: x.re / (norm_vector[i] * sequence_norm * n)  *)
(* unless norm_vector[i] is zero                                          *)
SyncCorrelationOf(window, norm_vector, i, sequence) ==
    IF NormIsZero(At(norm_vector, i)) THEN CorrValue(0, 1)
    ELSE CorrValue(CircularCorrelationOf(window, i, PaddedSequence(sequence.data))[1],
                   NormSquared(At(norm_vector, i)) * NormSquared(sequence.norm))

SyncCorrelation(window, norm_vector, i) ==
    SyncCorrelationOf(window, norm_vector, i, SyncSequence)

RECURSIVE FirstSyncHit(_, _, _)
FirstSyncHit(window, norm_vector, i) ==
    IF i >= Len(SyncSequence.data) \/ i >= Len(window) THEN NoMatch
    ELSE LET normalized_corr == SyncCorrelation(window, norm_vector, i)
         IN IF AtLeast(normalized_corr, SyncSequence.thr_num, SyncSequence.thr_den)
            THEN i
            ELSE FirstSyncHit(window, norm_vector, i + 1)

fft_corr_normalized(window, norm_vector) == FirstSyncHit(window, norm_vector, 0)

(* normalized_dot_product of lib.rs *)
normalized_dot_product(seq1, seq2) ==
    LET norm_seq1 == [sq |-> SumNormSqr(Values(seq1)), rooted |-> TRUE]
    IN IF NormIsZero(norm_seq1) \/ NormIsZero(seq2.norm) THEN CorrValue(0, 1)
       ELSE CorrValue(DotConj(Values(seq1), seq2.data)[1],
                      NormSquared(norm_seq1) * NormSquared(seq2.norm))

RECURSIVE FirstDiscriminator(_, _)
FirstDiscriminator(segment, protocol_index) ==
    IF protocol_index >= NumProtocols THEN NoMatch
    ELSE LET sequence == Protocols[protocol_index].sequences[1]
         IN IF AtLeast(normalized_dot_product(segment, sequence),
                       sequence.thr_num, sequence.thr_den)
            THEN protocol_index
            ELSE FirstDiscriminator(segment, protocol_index + 1)

(* match_protocols(&input[seq_start..], 0, protocols), for an in-range    *)
(* seq_start                                                              *)
match_protocols(input, seq_start) ==
    FirstDiscriminator(Slice(input, seq_start, seq_start + sequence_lengths_fft[1]), 0)

(* a faulty variant of MaxProcessFFT: the input margin behind the last   *)
(* window start is a window less one sample, not a window and a half      *)
MaxProcessFFTShortMargin(input_len, space) ==
    LET window_length == 2 * sequence_lengths_fft[1]
    IN SatSub(Min2(SatSub(input_len, window_length - 2),
                   SatSub(min_output_len(space), window_length - 1)), 1)

MaxProcessFFT(input_len, space) ==
    LET window_length == 2 * sequence_lengths_fft[1]
    IN SatSub(Min2(SatSub(input_len, (3 * window_length + 1) \div 2 - 1),
                   SatSub(min_output_len(space), window_length - 1)), 1)

(* a faulty variant of ScanStepFFT: a sync hit without a discriminator   *)
(* match falls back to the first protocol                                 *)
ScanStepFFTFallback(st, input, base) ==
    LET window_length == 2 * sequence_lengths_fft[1]
        i == st.i
        window == Slice(input, i, i + window_length)
        nv == update_norm_vector(st.norm_queue, st.running_sum, window,
                                 Len(SyncSequence.data))
        hit == fft_corr_normalized(window, nv.norms)
        seq_start == i + hit + sequence_lengths_fft[1]
        out_of_range == \/ i + window_length > Len(input)
                        \/ hit # NoMatch /\ seq_start + sequence_lengths_fft[1] > Len(input)
        matched == IF hit = NoMatch \/ out_of_range THEN NoMatch
                   ELSE match_protocols(input, seq_start)
        detected_seq == IF hit # NoMatch /\ ~out_of_range /\ matched = NoMatch
                        THEN 0 ELSE matched
        found == detected_seq # NoMatch
    IN [i |-> i + window_length \div 2,
        norm_queue |-> nv.norm_queue,
        running_sum |-> nv.running_sum,
        current_protocol |-> IF found THEN detected_seq ELSE st.current_protocol,
        sequence_hits |-> IF found
                          THEN Append(st.sequence_hits, <<i + hit, detected_seq>>)
                          ELSE st.sequence_hits,
        log |-> IF found
                THEN Append(st.log, [index |-> base + i + hit, name |-> detected_seq])
                ELSE st.log,
        hits |-> IF found
                 THEN Append(st.hits, [at |-> At(input, i + hit).at,
                                       protocol |-> detected_seq])
                 ELSE st.hits,
        panic |-> st.panic \/ out_of_range]

(* one iteration of "while i < max_process" *)
ScanStepFFT(st, input, base) ==
    LET window_length == 2 * sequence_lengths_fft[1]
        i == st.i
        window == Slice(input, i, i + window_length)
        nv == update_norm_vector(st.norm_queue, st.running_sum, window,
                                 Len(SyncSequence.data))
        hit == fft_corr_normalized(window, nv.norms)
        seq_start == i + hit + sequence_lengths_fft[1]
        out_of_range == \/ i + window_length > Len(input)
                        \/ hit # NoMatch /\ seq_start + sequence_lengths_fft[1] > Len(input)
        detected_seq == IF hit = NoMatch \/ out_of_range THEN NoMatch
                        ELSE match_protocols(input, seq_start)
        found == detected_seq # NoMatch
    IN [i |-> i + window_length \div 2,
        norm_queue |-> nv.norm_queue,
        running_sum |-> nv.running_sum,
        current_protocol |-> IF found THEN detected_seq ELSE st.current_protocol,
        sequence_hits |-> IF found
                          THEN Append(st.sequence_hits, <<i + hit, detected_seq>>)
                          ELSE st.sequence_hits,
        log |-> IF found
                THEN Append(st.log, [index |-> base + i + hit, name |-> detected_seq])
                ELSE st.log,
        hits |-> IF found
                 THEN Append(st.hits, [at |-> At(input, i + hit).at,
                                       protocol |-> detected_seq])
                 ELSE st.hits,
        panic |-> st.panic \/ out_of_range]

RECURSIVE ScanFFT(_, _, _, _)
ScanFFT(st, input, base, max_process) ==
    IF st.i >= max_process \/ st.panic THEN st
    ELSE ScanFFT(ScanStepFFT(st, input, base), input, base, max_process)

(* a faulty variant of RouteStepFFT: every span is written at the start  *)
(* of the lane's slice                                                   *)
RouteStepFFTOverwrite(rt, input, current_hit, hit_protocol, next_hit) ==
    LET output_len == next_hit - current_hit
    IN [mem |-> [rt.mem EXCEPT ![hit_protocol] =
                    CopyFromSlice(@, 0, Slice(input, current_hit, next_hit))],
        output_status |-> [rt.output_status EXCEPT ![hit_protocol] = @ + output_len],
        consumed |-> rt.consumed + output_len,
        panic |-> rt.panic \/ output_len > Len(rt.mem[hit_protocol])
                           \/ next_hit > Len(input)]

(* one step of "for (idx, window) in sequence_hits.windows(2)" *)
RouteStepFFT(rt, input, current_hit, hit_protocol, next_hit) ==
    LET output_len == next_hit - current_hit
        start_idx == rt.output_status[hit_protocol]
    IN [mem |-> [rt.mem EXCEPT ![hit_protocol] =
                    CopyFromSlice(@, start_idx, Slice(input, current_hit, next_hit))],
        output_status |-> [rt.output_status EXCEPT ![hit_protocol] = @ + output_len],
        consumed |-> rt.consumed + output_len,
        panic |-> rt.panic \/ start_idx + output_len > Len(rt.mem[hit_protocol])
                           \/ next_hit > Len(input)]

(* "for window in sequence_hits.windows(2)" *)
RECURSIVE RouteFFT(_, _, _, _)
RouteFFT(rt, input, sequence_hits, k) ==
    IF k >= Len(sequence_hits) THEN rt
    ELSE RouteFFT(RouteStepFFT(rt, input, sequence_hits[k][1], sequence_hits[k][2],
                               sequence_hits[k + 1][1]),
                  input, sequence_hits, k + 1)

(* a faulty variant of DrainFFT: the empty input is never noticed *)
DrainFFTStuck(input_len, out_len) ==
    IF in_finished /\ input_len > 0 /\ out_len >= 1 THEN "drain" ELSE "nothing"

(* lines 341-359 of work: what the block does when the input is finished *)
DrainFFT(input_len, out_len) ==
    IF in_finished
    THEN IF input_len = 0 THEN "finish"
         ELSE (IF out_len >= 1 THEN "drain" ELSE "nothing")
    ELSE "nothing"

(* lines 341-362 of work, after the routed spans were consumed and       *)
(* produced: the finished branch with the input that is left, and the     *)
(* writes to the fields of the block                                      *)
FinishFFT(space, scan, rt, rest) ==
    LET cp == scan.current_protocol
        drain == DrainFFT(Len(rest), space[cp] - rt.output_status[cp])
        drained == IF drain = "drain" THEN 1 ELSE 0
        mem == IF drain = "drain"
               THEN [rt.mem EXCEPT ![cp] =
                        CopyFromSlice(@, rt.output_status[cp], <<At(rest, 0)>>)]
               ELSE rt.mem
        offset == [p \in Lanes |->
                     rt.output_status[p] + (IF p = cp THEN drained ELSE 0)]
    IN IF scan.panic \/ rt.panic
       THEN /\ crashed' = "panic"
            /\ UNCHANGED <<othervars, variant, stream, in_finished, consumed, lanes,
                           tags, current_protocol, current_index, absolute_index,
                           norm_queue, running_sum, match_log, finished, hits, cls>>
       ELSE /\ consumed' = consumed + rt.consumed + drained
            /\ lanes' = [p \in Lanes |-> Commit(lanes[p], mem[p], offset[p])]
            /\ current_protocol' = cp
            /\ absolute_index' = absolute_index + rt.consumed
            /\ norm_queue' = scan.norm_queue
            /\ running_sum' = scan.running_sum
            /\ match_log' = match_log \o scan.log
            /\ hits' = hits \o scan.hits
            /\ finished' = (drain = "finish")
            /\ UNCHANGED <<othervars, variant, stream, in_finished, tags, current_index,
                           crashed, cls>>

(* lines 317-340 of work: the routing of the spans between the hits *)
RouteAllFFT(space, input, scan) ==
    LET rt0 == [mem |-> OutputMemory(space),
                output_status |-> [p \in Lanes |-> 0],
                consumed |-> 0,
                panic |-> FALSE]
    IN IF scan.i > 0
       THEN RouteFFT(rt0, input,
                     <<<<0, current_protocol>>>> \o scan.sequence_hits
                         \o <<<<scan.i, scan.current_protocol>>>>,
                     1)
       ELSE rt0

(* lines 274-316 of work: the windowed search *)
SearchFFT(space, input) ==
    ScanFFT([i |-> 0,
             norm_queue |-> norm_queue,
             running_sum |-> running_sum,
             current_protocol |-> current_protocol,
             sequence_hits |-> <<>>,
             log |-> <<>>,
             hits |-> <<>>,
             panic |-> FALSE],
            input, absolute_index, MaxProcessFFT(Len(input), space))

RoutedFFT(space, scan, rt) == FinishFFT(space, scan, rt, InputSlice(rt.consumed))

SearchedFFT(space, input, scan) == RoutedFFT(space, scan, RouteAllFFT(space, input, scan))

(* ProtocolDetectorFFT::work with the output space the runtime offers *)
WorkFFT(space) ==
    /\ variant = "fft"
    /\ ~finished
    /\ crashed = "none"
    /\ SearchedFFT(space, InputSlice(0), SearchFFT(space, InputSlice(0)))

(* the norm state after the window in which log_match fails *)
FailedNormsFFT(upto) ==
    /\ norm_queue' = upto.norm_queue
    /\ running_sum' = upto.running_sum

(* lines 304-314 of work when the write of log_match fails at the first  *)
(* match of the search: "?" returns the error from work, after            *)
(* update_norm_vector ran for the windows up to that of the match;        *)
(* nothing is consumed or produced and self.current_protocol is not set   *)
FailedFFT(input, scan) ==
    /\ scan.log # <<>>
    /\ crashed' = "error"
    /\ FailedNormsFFT(
           ScanFFT([i |-> 0,
                    norm_queue |-> norm_queue,
                    running_sum |-> running_sum,
                    current_protocol |-> current_protocol,
                    sequence_hits |-> <<>>,
                    log |-> <<>>,
                    hits |-> <<>>,
                    panic |-> FALSE],
                   input, absolute_index,
                   IF scan.log = <<>> THEN 0
                   ELSE scan.sequence_hits[1][1]
                        - (scan.sequence_hits[1][1] % sequence_lengths_fft[1]) + 1))
    /\ UNCHANGED <<othervars, variant, stream, in_finished, consumed, lanes,
                   tags, current_protocol, current_index, absolute_index,
                   match_log, finished, hits, cls>>

(* ProtocolDetectorFFT::work in which the match log cannot be written *)
WorkFFTLogFails(space) ==
    /\ variant = "fft"
    /\ ~finished
    /\ crashed = "none"
    /\ FailedFFT(InputSlice(0), SearchFFT(space, InputSlice(0)))

----------------------------------------------------------------------------
(* MultiPortInserter: one input lane per port, one output lane.  The      *)
(* k-th sample of port p has the value <<p + 1, k>>; an output item       *)
(* carries, as history, where it comes from.                              *)

MaxPortStream == 3
MaxBursts == 3

(* MultiPortInserter::new arguments: two ports, one sequence each *)
Ports == {0, 1}
pad_front == 1
pad_back == 1
InserterSequences == [p \in Ports |-> <<<<1, p>>>>]

(* the packet lengths the trigger tags of the model carry *)
PacketLengths == {0, 2}

(* MultiPortInserter::new: padded_sequences *)
padded_sequences ==
    [p \in Ports |->
        [k \in 1..pad_front |-> Zero] \o InserterSequences[p]
            \o [k \in 1..pad_back |-> Zero]]

(* the padded sequence of port p as output items *)
PreambleItems(p) ==
    [k \in 1..Len(padded_sequences[p]) |->
        [src |-> "sequence", port |-> p, at |-> k - 1, v |-> padded_sequences[p][k]]]

(* the k-th sample (0-based) of input port p *)
PortSample(p, k) == [src |-> "input", port |-> p, at |-> k, v |-> <<p + 1, k>>]

(* sio.input(p).slice() at the start of a work call *)
PortSlice(p) ==
    [k \in 1..(port_len[p] - port_consumed[p]) |->
        PortSample(p, port_consumed[p] + k - 1)]

(* sio.input(p).tags(): the matching tags in the buffer, with indices     *)
(* relative to the start of the slice                                      *)
PortTagsOf(p) ==
    [k \in DOMAIN port_tags[p] |->
        [index |-> port_tags[p][k].at - port_consumed[p],
         len |-> port_tags[p][k].len]]

(* what consume(n) on port p leaves of its tags *)
TagsAfterConsume(p, n) ==
    SelectSeq(port_tags[p], LAMBDA t : t.at >= port_consumed[p] + n)

(* a faulty variant of all_inputs_empty_and_finished: one port is enough *)
AnyInputEmptyAndFinished ==
    \E i \in Ports : PortSlice(i) = <<>> /\ port_finished[i]

all_inputs_empty_and_finished ==
    \A i \in Ports : PortSlice(i) = <<>> /\ port_finished[i]

(* "for &port_index in &self.port_order": the first port, in that order,  *)
(* whose tags hold a matching tag                                          *)
RECURSIVE FirstTaggedPort(_)
FirstTaggedPort(order) ==
    IF order = <<>> THEN NoMatch
    ELSE IF port_tags[Head(order)] # <<>> THEN Head(order)
    ELSE FirstTaggedPort(Tail(order))

(* a faulty variant of UpdatePortOrder: the order is left as it is *)
KeepPortOrder(order, port_index) == order

(* a faulty variant of UpdatePortOrder: the selected port changes places *)
(* with the last port                                                     *)
SwapWithLast(order, port_index) ==
    [k \in DOMAIN order |->
        IF order[k] = port_index THEN order[Len(order)]
        ELSE IF k = Len(order) THEN port_index
        ELSE order[k]]

(* "Update port order": retain the others, push the selected port *)
UpdatePortOrder(order, port_index) ==
    Append(SelectSeq(order, LAMBDA q : q # port_index), port_index)

(* lines 110-160 of work: the search for a matching tag *)
SearchPorts(st, port_index) ==
    IF st.current_port # NoMatch \/ port_index = NoMatch THEN st
    ELSE [st EXCEPT
             !.current_port = port_index,
             !.inserting_sequence = TRUE,
             !.sequence_index = 0,
             !.packet_length = PortTagsOf(port_index)[1].len,
             !.consumed_input = 0,
             !.insertion_index = PortTagsOf(port_index)[1].index,
             !.samples_after_sequence = 0,
             !.port_order = UpdatePortOrder(st.port_order, port_index),
             !.selected = TRUE]

(* lines 172-185 of work: "Copy input data before insertion point" *)
PreInsertion(st, input, out_len) ==
    IF st.current_port # NoMatch /\ st.consumed_input < st.insertion_index
    THEN LET pre_insertion ==
                 Min2(Min2(st.insertion_index - st.consumed_input, Len(input)), out_len)
         IN [st EXCEPT
                !.out = @ \o SubSeq(input, 1, pre_insertion),
                !.input_consumed = @ + pre_insertion,
                !.output_produced = @ + pre_insertion,
                !.consumed_input = @ + pre_insertion]
    ELSE st

(* lines 187-209 of work: "Insert padded sequence" *)
InsertSequence(st, sequence, out_len) ==
    IF st.current_port # NoMatch /\ st.inserting_sequence
    THEN LET to_insert == Len(sequence) - st.sequence_index
             data_inserted == Min2(to_insert, out_len - st.output_produced)
             still == st.sequence_index + data_inserted < Len(sequence)
         IN [st EXCEPT
                !.out = @ \o SubSeq(sequence, st.sequence_index + 1,
                                    st.sequence_index + data_inserted),
                !.output_produced = @ + data_inserted,
                !.sequence_index = IF still THEN @ + data_inserted ELSE 0,
                !.inserting_sequence = still]
    ELSE st

(* a faulty variant of ResetBurst: the indices of the burst are kept *)
ResetBurstKeepIndices(st) ==
    IF st.samples_after_sequence >= st.packet_length
    THEN [st EXCEPT
             !.current_port = NoMatch,
             !.inserting_sequence = FALSE,
             !.sequence_index = 0,
             !.packet_length = 0]
    ELSE st

(* lines 234-244 of work: "Packet processing complete. Resetting state." *)
ResetBurst(st) ==
    IF st.samples_after_sequence >= st.packet_length
    THEN [st EXCEPT
             !.current_port = NoMatch,
             !.inserting_sequence = FALSE,
             !.sequence_index = 0,
             !.packet_length = 0,
             !.consumed_input = 0,
             !.insertion_index = 0,
             !.samples_after_sequence = 0]
    ELSE st

(* a faulty variant of CopyRemaining: the copy starts at the beginning of *)
(* the input slice                                                         *)
CopyRemainingFromStart(st, input, out_len) ==
    IF st.current_port # NoMatch /\ ~st.inserting_sequence
    THEN LET remaining_to_copy == st.packet_length - st.samples_after_sequence
             data_to_copy == Min2(Min2(Len(input), remaining_to_copy),
                                  out_len - st.output_produced)
         IN IF st.input_consumed + data_to_copy > Len(input)
            THEN [st EXCEPT !.panic = TRUE]
            ELSE ResetBurst(
                     [st EXCEPT
                         !.out = @ \o SubSeq(input, 1, data_to_copy),
                         !.input_consumed = @ + data_to_copy,
                         !.output_produced = @ + data_to_copy,
                         !.samples_after_sequence = @ + data_to_copy])
    ELSE st

(* lines 211-245 of work: "Copy remaining input data"; the slice          *)
(* input[input_consumed..input_consumed + data_to_copy] panics when it    *)
(* ends past the input                                                     *)
CopyRemaining(st, input, out_len) ==
    IF st.current_port # NoMatch /\ ~st.inserting_sequence
    THEN LET remaining_to_copy == st.packet_length - st.samples_after_sequence
             data_to_copy == Min2(Min2(Len(input), remaining_to_copy),
                                  out_len - st.output_produced)
         IN IF st.input_consumed + data_to_copy > Len(input)
            THEN [st EXCEPT !.panic = TRUE]
            ELSE ResetBurst(
                     [st EXCEPT
                         !.out = @ \o SubSeq(input, st.input_consumed + 1,
                                             st.input_consumed + data_to_copy),
                         !.input_consumed = @ + data_to_copy,
                         !.output_produced = @ + data_to_copy,
                         !.samples_after_sequence = @ + data_to_copy])
    ELSE st

(* history: the burst a selection starts *)
NewBursts(st, selected_port) ==
    IF st.selected
    THEN <<[port |-> selected_port,
            from |-> port_consumed[selected_port],
            tag |-> port_consumed[selected_port] + st.insertion_index,
            len |-> st.packet_length,
            out_at |-> Len(output),
            behind |-> {p \in Ports \ {selected_port} : port_tags[p] # <<>>}]>>
    ELSE <<>>

(* history: waited[p] counts the bursts of other ports served while a tag *)
(* of port p is in its buffer: the burst in progress when the tag         *)
(* arrives, and every selection of another port q since                    *)
WaitedAfter(st, q) ==
    IF st.selected
    THEN [p \in Ports |->
             IF p = q THEN 0
             ELSE IF port_tags[p] # <<>> THEN waited[p] + 1 ELSE waited[p]]
    ELSE waited

(* lines 247-248 of work, consume and produce, and the fields of the      *)
(* block after the call; srch is the state after the search                *)
FinishInserter(srch, st) ==
    /\ srch.selected => Len(bursts) < MaxBursts
    /\ IF st.panic
       THEN /\ ins_crashed' = "panic"
            /\ UNCHANGED <<port_len, port_consumed, port_tags, port_finished,
                           output, current_port, inserting_sequence,
                           sequence_index, packet_length, consumed_input,
                           insertion_index, samples_after_sequence, port_order,
                           ins_finished, bursts, waited>>
       ELSE /\ current_port' = st.current_port
            /\ inserting_sequence' = st.inserting_sequence
            /\ sequence_index' = st.sequence_index
            /\ packet_length' = st.packet_length
            /\ consumed_input' = st.consumed_input
            /\ insertion_index' = st.insertion_index
            /\ samples_after_sequence' = st.samples_after_sequence
            /\ port_order' = st.port_order
            /\ output' = output \o st.out
            /\ port_consumed' =
                  IF srch.current_port = NoMatch THEN port_consumed
                  ELSE [port_consumed EXCEPT ![srch.current_port] = @ + st.input_consumed]
            /\ port_tags' =
                  IF srch.current_port = NoMatch THEN port_tags
                  ELSE [port_tags EXCEPT ![srch.current_port] =
                           TagsAfterConsume(srch.current_port, st.input_consumed)]
            /\ bursts' = bursts \o NewBursts(srch, srch.current_port)
            /\ waited' = WaitedAfter(srch, srch.current_port)
            /\ UNCHANGED <<port_len, port_finished, ins_finished, ins_crashed>>

(* a faulty variant of ProcessPort: the sequence is inserted before the  *)
(* samples in front of the tag are copied                                 *)
ProcessPortInsertFirst(srch, input, sequence, out_len) ==
    \E ins \in {InsertSequence(srch, sequence, out_len)} :
        \E pre \in {PreInsertion(ins, input, out_len)} :
            \E st \in {CopyRemaining(pre, input, out_len)} :
                FinishInserter(srch, st)

(* lines 162-248 of work: the three copies on the current port, each on  *)
(* the state the one before it left                                       *)
ProcessPort(srch, input, sequence, out_len) ==
    \E pre \in {PreInsertion(srch, input, out_len)} :
        \E ins \in {InsertSequence(pre, sequence, out_len)} :
            \E st \in {CopyRemaining(ins, input, out_len)} :
                FinishInserter(srch, st)

Searched(srch, out_len) ==
    ProcessPort(srch,
                IF srch.current_port = NoMatch THEN <<>>
                ELSE PortSlice(srch.current_port),
                IF srch.current_port = NoMatch THEN <<>>
                ELSE PreambleItems(srch.current_port),
                out_len)

(* MultiPortInserter::work with out_len free items in the output buffer *)
WorkInserter(out_len) ==
    /\ ~ins_finished
    /\ ins_crashed = "none"
    /\ UNCHANGED <<detvars, genvars, args, result, config, constructed>>
    /\ IF all_inputs_empty_and_finished
       THEN /\ ins_finished' = TRUE
            /\ UNCHANGED <<port_len, port_consumed, port_tags, port_finished,
                           output, current_port, inserting_sequence,
                           sequence_index, packet_length, consumed_input,
                           insertion_index, samples_after_sequence, port_order,
                           ins_crashed, bursts, waited>>
       ELSE \E srch \in {SearchPorts([current_port |-> current_port,
                                      inserting_sequence |-> inserting_sequence,
                                      sequence_index |-> sequence_index,
                                      packet_length |-> packet_length,
                                      consumed_input |-> consumed_input,
                                      insertion_index |-> insertion_index,
                                      samples_after_sequence |-> samples_after_sequence,
                                      port_order |-> port_order,
                                      selected |-> FALSE,
                                      out |-> <<>>,
                                      input_consumed |-> 0,
                                      output_produced |-> 0,
                                      panic |-> FALSE],
                                     FirstTaggedPort(port_order))} :
                Searched(srch, out_len)

(* the upstream block of port p produces one more sample, with or without *)
(* a matching trigger tag on it                                            *)
PortArrive(p) ==
    /\ ~port_finished[p]
    /\ port_len[p] < MaxPortStream
    /\ port_len' = [port_len EXCEPT ![p] = @ + 1]
    /\ \/ UNCHANGED <<port_tags, waited>>
       \/ /\ \E len \in PacketLengths :
                port_tags' = [port_tags EXCEPT ![p] =
                                 Append(@, [at |-> port_len[p], len |-> len])]
          /\ waited' = IF port_tags[p] # <<>> THEN waited
                       ELSE IF current_port \notin {NoMatch, p}
                       THEN [waited EXCEPT ![p] = 1]
                       ELSE [waited EXCEPT ![p] = 0]
    /\ UNCHANGED <<detvars, genvars, args, result, config, constructed, port_consumed, port_finished,
                   output, current_port, inserting_sequence, sequence_index,
                   packet_length, consumed_input, insertion_index,
                   samples_after_sequence, port_order, ins_finished,
                   ins_crashed, bursts>>

(* the upstream block of port p finishes *)
PortFinished(p) ==
    /\ ~port_finished[p]
    /\ port_finished' = [port_finished EXCEPT ![p] = TRUE]
    /\ UNCHANGED <<detvars, genvars, args, result, config, constructed, port_len, port_consumed,
                   port_tags, output, current_port, inserting_sequence,
                   sequence_index, packet_length, consumed_input,
                   insertion_index, samples_after_sequence, port_order,
                   ins_finished, ins_crashed, bursts, waited>>

(* the free space of the output buffer at a work call: none, one item,    *)
(* ample                                                                   *)
OutputSpaceChoices == {0, 1, MaxSpace}

(* MultiPortInserter::new *)
InserterConstructed ==
    /\ port_len = [p \in Ports |-> 0]
    /\ port_consumed = [p \in Ports |-> 0]
    /\ port_tags = [p \in Ports |-> <<>>]
    /\ port_finished = [p \in Ports |-> FALSE]
    /\ output = <<>>
    /\ current_port = NoMatch
    /\ inserting_sequence = FALSE
    /\ sequence_index = 0
    /\ packet_length = 0
    /\ consumed_input = 0
    /\ insertion_index = 0
    /\ samples_after_sequence = 0
    /\ port_order = <<0, 1>>
    /\ ins_finished = FALSE
    /\ ins_crashed = "none"
    /\ bursts = <<>>
    /\ waited = [p \in Ports |-> 0]

----------------------------------------------------------------------------
(* The environment of the block *)

(* the upstream block produces one more sample *)
ArriveWithin(bound) ==
    /\ ~in_finished
    /\ Len(stream) < bound
    /\ \E x \in Samples : stream' = Append(stream, x)
    /\ UNCHANGED <<othervars, variant, in_finished, consumed, lanes, tags,
                   current_protocol, current_index, absolute_index, norm_queue,
                   running_sum, match_log, finished, crashed, hits, cls>>

Arrive == ArriveWithin(MaxStream)

(* the upstream block finishes: its stream ends here *)
UpstreamFinished ==
    /\ ~in_finished
    /\ in_finished' = TRUE
    /\ UNCHANGED <<othervars, variant, stream, consumed, lanes, tags,
                   current_protocol, current_index, absolute_index, norm_queue,
                   running_sum, match_log, finished, crashed, hits, cls>>

(* the space the downstream buffers offer at a work call: the same on     *)
(* every lane (none, one slot, half of the ample space, ample), or ample  *)
(* on the current lane while the other lanes are full                     *)
SpaceChoices ==
    {[p \in Lanes |-> m] : m \in {0, 1, MaxSpace \div 2, MaxSpace}}
        \cup {[p \in Lanes |-> IF p = current_protocol THEN MaxSpace ELSE 0]}

WorkTimeCall == \E space \in SpaceChoices : WorkTime(space)

WorkFFTCall == \E space \in SpaceChoices : WorkFFT(space)

----------------------------------------------------------------------------
(* The single-lane generator of the tests: a source, SimpleTagInserter and *)
(* MultiProtocolInserter in a row                                          *)

MaxGenStream == 4
MaxPad == 1
MaxInterval == 2

One == <<1, 0>>

(* what the Source of the test produces, and a second value to tell the   *)
(* samples apart                                                          *)
Filler == <<-1, -1>>

SourceValues == {Filler, J}

(* what an output slot holds when work produces it without writing it *)
Stale == <<"stale">>

(* the protocols handed to MultiProtocolInserter::new *)
GeneratorProtocols ==
    << [name |-> "zc", sequence |-> <<One>>],
       [name |-> "lora", sequence |-> <<J, J>>] >>

(* the protocol names handed to SimpleTagInserter::new *)
TagNameLists == {<<"zc">>, <<"zc", "lora">>, <<"other", "lora">>}

(* the input slices SimpleTagInserter::work can find *)
SourceSlices ==
    {<<>>} \cup UNION {[1..n -> SourceValues] : n \in 1..2}

(* before the blocks of the generator are constructed *)
GeneratorIdle ==
    /\ tag_inserter = [counter |-> 0, interval |-> 1, protocols |-> <<>>]
    /\ tagged = <<>>
    /\ tag_finished = FALSE
    /\ protocol_inserter = <<>>
    /\ taken = 0
    /\ generated = <<>>
    /\ generator_finished = FALSE

(* SimpleTagInserter::new *)
NewSimpleTagInserter(interval, protocols) ==
    [counter |-> 0, interval |-> interval, protocols |-> protocols]

(* MultiProtocolInserter::new *)
NewMultiProtocolInserter(protocols, front, tail) ==
    [protocols |-> protocols,
     pad_front |-> front,
     pad_tail |-> tail,
     current_sequence |-> <<>>,
     sequence_index |-> 0,
     padding_index |-> 0,
     is_inserting |-> FALSE]

(* the sample SimpleTagInserter::work writes while its counter is counter: *)
(* every interval-th sample gets a NamedUsize tag, the names in turn       *)
TaggedSample(value, counter, interval, protocols) ==
    [value |-> value,
     tags |-> IF counter % interval = 0
              THEN <<[name |-> protocols[((counter \div interval)
                                            % Len(protocols)) + 1],
                      length |-> interval]>>
              ELSE <<>>]

(* SimpleTagInserter::work on the input slice input with out_len free     *)
(* output items, in_done being sio.input(0).finished()                    *)
WorkTagInserter(input, out_len, in_done) ==
    LET n == Min2(Len(input), out_len)
        counter == tag_inserter.counter
    IN  /\ ~tag_finished
        /\ n > 0 \/ in_done
        /\ Len(tagged) + n <= MaxGenStream
        /\ tagged' = tagged \o
               [i \in 1..n |-> TaggedSample(input[i], counter + i - 1,
                                            tag_inserter.interval,
                                            tag_inserter.protocols)]
        /\ tag_inserter' = [tag_inserter EXCEPT !.counter = counter + n]
        /\ tag_finished' = in_done
        /\ UNCHANGED <<detvars, config, constructed, insvars, args, result,
                       protocol_inserter, taken, generated,
                       generator_finished>>

(* sio.input(0).tags().first(): the tags of the buffer by position *)
FirstTag(input) ==
    LET at == {k \in DOMAIN input : input[k].tags # <<>>}
    IN  IF at = {} THEN <<>>
        ELSE LET k == CHOOSE k \in at : \A m \in at : k <= m
             IN  <<[index |-> k - 1, tag |-> input[k].tags[1]]>>

(* self.protocols.iter().find(|p| &p.name == protocol_name) *)
FindProtocol(protocols, protocol_name) ==
    LET found == {k \in DOMAIN protocols : protocols[k].name = protocol_name}
    IN  IF found = {} THEN <<>>
        ELSE <<protocols[CHOOSE k \in found : \A m \in found : k <= m]>>

(* MultiProtocolInserter::work, first part: a tag at index 0 that names a *)
(* protocol starts an insertion unless one is in progress                 *)
StartInsertion(s, input) ==
    LET first == FirstTag(input)
        protocol == IF first # <<>> /\ first[1].index = 0
                    THEN FindProtocol(s.protocols, first[1].tag.name)
                    ELSE <<>>
    IN  IF ~s.is_inserting /\ protocol # <<>>
        THEN [s EXCEPT !.current_sequence = <<protocol[1].sequence>>,
                       !.sequence_index = 0,
                       !.padding_index = 0,
                       !.is_inserting = TRUE]
        ELSE s

(* MultiProtocolInserter::work, second part: the one item written to      *)
(* output[0], and whether input[0] is consumed                            *)
WriteOne(s, input) ==
    IF s.is_inserting
    THEN IF s.padding_index < s.pad_front
         THEN [state |-> [s EXCEPT !.padding_index = @ + 1],
               out |-> Zero, consume |-> 0]
         ELSE IF s.current_sequence # <<>>
         THEN LET seq == s.current_sequence[1]
              IN  IF s.sequence_index < Len(seq)
                  THEN [state |-> [s EXCEPT !.sequence_index = @ + 1],
                        out |-> seq[s.sequence_index + 1], consume |-> 0]
                  ELSE IF s.padding_index < s.pad_front + s.pad_tail
                  THEN [state |-> [s EXCEPT !.padding_index = @ + 1],
                        out |-> Zero, consume |-> 0]
                  ELSE [state |-> [s EXCEPT !.is_inserting = FALSE,
                                            !.current_sequence = <<>>],
                        out |-> input[1].value, consume |-> 1]
         ELSE [state |-> s, out |-> Stale, consume |-> 0]
    ELSE [state |-> s, out |-> input[1].value, consume |-> 1]

(* MultiProtocolInserter::work with a sample in the input buffer and a    *)
(* free output item; with an empty input or a full output it returns      *)
(* without any effect                                                     *)
WorkProtocolInserter ==
    LET input == SubSeq(tagged, taken + 1, Len(tagged))
    IN  /\ ~generator_finished
        /\ input # <<>>
        /\ \E step \in {WriteOne(StartInsertion(protocol_inserter, input),
                                 input)} :
              /\ protocol_inserter' = step.state
              /\ generated' = Append(generated, step.out)
              /\ taken' = taken + step.consume
        /\ generator_finished' = tag_finished
        /\ UNCHANGED <<detvars, config, constructed, insvars, args, result,
                       tag_inserter, tagged, tag_finished>>

----------------------------------------------------------------------------
(* a faulty variant of Init: the detector starts on the second protocol *)
InitOnSecondProtocol ==
    /\ variant \in {"time", "fft"}
    /\ stream = <<>>
    /\ in_finished = FALSE
    /\ consumed = 0
    /\ lanes = [p \in Lanes |-> <<>>]
    /\ tags = [p \in Lanes |-> <<>>]
    /\ current_protocol = 1
    /\ current_index = 0
    /\ absolute_index = 0
    /\ norm_queue = <<>>
    /\ running_sum = 0
    /\ match_log = <<>>
    /\ finished = FALSE
    /\ crashed = "none"
    /\ hits = <<>>
    /\ cls = <<>>
    /\ config = DeclaredConfig
    /\ constructed = "ok"
    /\ InserterConstructed
    /\ args = <<>>
    /\ result = <<>>
    /\ GeneratorIdle

Init ==
    /\ variant \in {"time", "fft"}
    /\ stream = <<>>
    /\ in_finished = FALSE
    /\ consumed = 0
    /\ lanes = [p \in Lanes |-> <<>>]
    /\ tags = [p \in Lanes |-> <<>>]
    /\ current_protocol = 0
    /\ current_index = 0
    /\ absolute_index = 0
    /\ norm_queue = <<>>
    /\ running_sum = 0
    /\ match_log = <<>>
    /\ finished = FALSE
    /\ crashed = "none"
    /\ hits = <<>>
    /\ cls = <<>>
    /\ config = DeclaredConfig
    /\ constructed = "ok"
    /\ InserterConstructed
    /\ args = <<>>
    /\ result = <<>>
    /\ GeneratorIdle

Next ==
    \/ Arrive
    \/ UpstreamFinished
    \/ WorkTimeCall
    \/ WorkFFTCall

(* both detectors *)
Spec == Init /\ [][Next]_vars

(* the time-domain detector alone *)
InitTime == Init /\ variant = "time"

NextTime ==
    \/ Arrive
    \/ UpstreamFinished
    \/ WorkTimeCall

SpecTime == InitTime /\ [][NextTime]_vars

(* the FFT detector alone *)
InitFFT == Init /\ variant = "fft"

NextFFT ==
    \/ Arrive
    \/ UpstreamFinished
    \/ WorkFFTCall

SpecFFT == InitFFT /\ [][NextFFT]_vars

(* the FFT detector on streams long enough for a window, a drained       *)
(* sample and another window                                              *)
MaxLongStream == 10

ArriveLong == ArriveWithin(MaxLongStream)

NextFFTLong ==
    \/ ArriveLong
    \/ UpstreamFinished
    \/ WorkFFTCall

SpecFFTLong == InitFFT /\ [][NextFFTLong]_vars

(* a work call, once the upstream is finished, at which the current lane *)
(* has output space                                                      *)
WorkWithSpace ==
    /\ in_finished
    /\ \E space \in SpaceChoices :
          /\ space[current_protocol] >= 1
          /\ (WorkTime(space) \/ WorkFFT(space))

ArriveShort == ArriveWithin(MaxFairStream)

NextFair ==
    \/ ArriveShort
    \/ UpstreamFinished
    \/ WorkTimeCall
    \/ WorkFFTCall

(* both detectors on streams of up to MaxFairStream samples, invoked     *)
(* again and again with space on the current lane after the upstream has *)
(* finished                                                              *)
FairSpec == Init /\ [][NextFair]_vars /\ WF_vars(WorkWithSpace)

(* both detectors with a match log that may fail to be written *)
WorkTimeLogFailsCall == \E space \in SpaceChoices : WorkTimeLogFails(space)

WorkFFTLogFailsCall == \E space \in SpaceChoices : WorkFFTLogFails(space)

NextLog ==
    \/ Arrive
    \/ UpstreamFinished
    \/ WorkTimeCall
    \/ WorkFFTCall
    \/ WorkTimeLogFailsCall
    \/ WorkFFTLogFailsCall

SpecLog == Init /\ [][NextLog]_vars

----------------------------------------------------------------------------
(* Construction: ProtocolDetector::new and ProtocolDetectorFFT::new with  *)
(* the arguments the caller hands in.  validate_protocols returns Err     *)
(* ("invalid", new then panics in expect) or Ok; an index past the end of  *)
(* an empty sequences vector is a panic.                                   *)

MaxConfig == 2

RECURSIVE SeqsUpTo(_, _)
SeqsUpTo(S, n) ==
    IF n = 0 THEN {<<>>}
    ELSE SeqsUpTo(S, n - 1) \cup {Append(q, x) : q \in SeqsUpTo(S, n - 1), x \in S}

(* the configurations a caller may hand in: up to MaxConfig protocols     *)
(* with up to MaxConfig sequences each, of odd (1) or even (2) length     *)
Configurations ==
    [protocols : SeqsUpTo(SeqsUpTo({1, 2}, MaxConfig), MaxConfig),
     sync : SeqsUpTo({1, 2}, 1)]

(* the loop of ProtocolDetector::validate_protocols *)
RECURSIVE CheckProtocolsTD(_, _, _)
CheckProtocolsTD(protocols, reference_sequence_length, k) ==
    IF k > Len(protocols) THEN "ok"
    ELSE IF protocols[k] = <<>> THEN "panic"
    ELSE IF protocols[k][1] # reference_sequence_length THEN "invalid"
    ELSE CheckProtocolsTD(protocols, reference_sequence_length, k + 1)

(* ProtocolDetector::validate_protocols *)
validate_protocols_td(protocols, sync_sequence) ==
    IF protocols = <<>> THEN "invalid"
    ELSE IF sync_sequence = <<>> /\ protocols[1] = <<>> THEN "panic"
    ELSE LET reference_sequence_length ==
                 IF sync_sequence # <<>> THEN sync_sequence[1] ELSE protocols[1][1]
         IN IF sync_sequence # <<>> /\ sync_sequence[1] # reference_sequence_length
            THEN "invalid"
            ELSE CheckProtocolsTD(protocols, reference_sequence_length, 1)

(* the loop of ProtocolDetectorFFT::validate_protocols *)
RECURSIVE CheckProtocolsFFT(_, _, _)
CheckProtocolsFFT(protocols, reference_length, k) ==
    IF k > Len(protocols) THEN "ok"
    ELSE IF protocols[k] = <<>> THEN "panic"
    ELSE IF protocols[k][1] # reference_length THEN "invalid"
    ELSE CheckProtocolsFFT(protocols, reference_length, k + 1)

(* ProtocolDetectorFFT::validate_protocols *)
validate_protocols_fft(protocols) ==
    IF protocols = <<>> THEN "invalid"
    ELSE IF protocols[1] = <<>> THEN "panic"
    ELSE IF protocols[1][1] % 2 # 0 THEN "invalid"
    ELSE CheckProtocolsFFT(protocols, protocols[1][1], 2)

(* ProtocolDetector::new *)
NewProtocolDetector ==
    /\ variant = "time"
    /\ constructed = "pending"
    /\ constructed' = validate_protocols_td(config.protocols, config.sync)
    /\ UNCHANGED <<variant, stream, in_finished, consumed, lanes, tags,
                   current_protocol, current_index, absolute_index, norm_queue,
                   running_sum, match_log, finished, crashed, hits, cls, config,
                   insvars, args, result, genvars>>

(* ProtocolDetectorFFT::new *)
NewProtocolDetectorFFT ==
    /\ variant = "fft"
    /\ constructed = "pending"
    /\ constructed' = validate_protocols_fft(config.protocols)
    /\ UNCHANGED <<variant, stream, in_finished, consumed, lanes, tags,
                   current_protocol, current_index, absolute_index, norm_queue,
                   running_sum, match_log, finished, crashed, hits, cls, config,
                   insvars, args, result, genvars>>

(* a caller about to construct a detector; the FFT detector takes a sync  *)
(* sequence, the time-domain detector an optional one                       *)
InitConfig ==
    /\ variant \in {"time", "fft"}
    /\ config \in Configurations
    /\ variant = "fft" => config.sync # <<>>
    /\ constructed = "pending"
    /\ stream = <<>>
    /\ in_finished = FALSE
    /\ consumed = 0
    /\ lanes = [p \in Lanes |-> <<>>]
    /\ tags = [p \in Lanes |-> <<>>]
    /\ current_protocol = 0
    /\ current_index = 0
    /\ absolute_index = 0
    /\ norm_queue = <<>>
    /\ running_sum = 0
    /\ match_log = <<>>
    /\ finished = FALSE
    /\ crashed = "none"
    /\ hits = <<>>
    /\ cls = <<>>
    /\ InserterConstructed
    /\ args = <<>>
    /\ result = <<>>
    /\ GeneratorIdle

NextConfig ==
    \/ NewProtocolDetector
    \/ NewProtocolDetectorFFT

SpecConfig == InitConfig /\ [][NextConfig]_vars

----------------------------------------------------------------------------
(* The MultiPortInserter between its upstream blocks and its output *)

InitInserter ==
    /\ variant = "time"
    /\ stream = <<>>
    /\ in_finished = FALSE
    /\ consumed = 0
    /\ lanes = [p \in Lanes |-> <<>>]
    /\ tags = [p \in Lanes |-> <<>>]
    /\ current_protocol = 0
    /\ current_index = 0
    /\ absolute_index = 0
    /\ norm_queue = <<>>
    /\ running_sum = 0
    /\ match_log = <<>>
    /\ finished = FALSE
    /\ crashed = "none"
    /\ hits = <<>>
    /\ cls = <<>>
    /\ config = DeclaredConfig
    /\ constructed = "ok"
    /\ InserterConstructed
    /\ args = <<>>
    /\ result = <<>>
    /\ GeneratorIdle

PortArrives == \E p \in Ports : PortArrive(p)

PortFinishes == \E p \in Ports : PortFinished(p)

WorkInserterCall == \E out_len \in OutputSpaceChoices : WorkInserter(out_len)

NextInserter ==
    \/ PortArrives
    \/ PortFinishes
    \/ WorkInserterCall

SpecInserter == InitInserter /\ [][NextInserter]_vars

(* the inserter with upstream blocks that finish and a downstream block  *)
(* that keeps the output buffer free: work is called again and again with *)
(* ample output space                                                     *)
WorkWithAmpleSpace == WorkInserter(MaxSpace)

FairSpecInserter ==
    /\ InitInserter
    /\ [][NextInserter]_vars
    /\ WF_vars(WorkWithAmpleSpace)
    /\ \A p \in Ports : WF_vars(PortFinished(p))

----------------------------------------------------------------------------
(* The functions of the detectors applied on their own: a window of      *)
(* WindowLength samples, a reference sequence of ReferenceLength samples  *)
(* and an offset into the window                                          *)

ReferenceLength == 2
WindowLength == 2 * ReferenceLength

(* samples of a slice that holds the values data *)
AsInput(data) == [k \in DOMAIN data |-> [v |-> data[k], at |-> k - 1]]

InitFunctions ==
    /\ variant = "time"
    /\ stream = <<>>
    /\ in_finished = FALSE
    /\ consumed = 0
    /\ lanes = [p \in Lanes |-> <<>>]
    /\ tags = [p \in Lanes |-> <<>>]
    /\ current_protocol = 0
    /\ current_index = 0
    /\ absolute_index = 0
    /\ norm_queue = <<>>
    /\ running_sum = 0
    /\ match_log = <<>>
    /\ finished = FALSE
    /\ crashed = "none"
    /\ hits = <<>>
    /\ cls = <<>>
    /\ config = DeclaredConfig
    /\ constructed = "ok"
    /\ InserterConstructed
    /\ args \in [window : [1..WindowLength -> Samples],
                 reference : [1..ReferenceLength -> Samples],
                 offset : 0..(ReferenceLength - 1)]
    /\ result = <<>>
    /\ GeneratorIdle

Returned(fn, value) ==
    /\ result = <<>>
    /\ result' = <<[fn |-> fn, value |-> value]>>
    /\ UNCHANGED <<detvars, config, constructed, insvars, args, genvars>>

(* the correlation of match_protocol at start_index = offset *)
ApplyTimeDomain ==
    LET input == AsInput(args.window)
        input_norms == calculate_norm_vector(input, ReferenceLength)
    IN Returned("time",
                normalized_dot_product_td(
                    Slice(input, args.offset, args.offset + ReferenceLength),
                    At(input_norms, args.offset), NewSequence(args.reference)))

(* the correlation of match_protocols at start_index = offset *)
ApplyDiscriminator ==
    LET input == AsInput(args.window)
    IN Returned("discriminator",
                normalized_dot_product(
                    Slice(input, args.offset, args.offset + ReferenceLength),
                    NewSequence(args.reference)))

(* the correlation of fft_corr_normalized at bin offset, on the first    *)
(* window of a detector                                                  *)
ApplySync ==
    LET window == AsInput(args.window)
        norm_vector == update_norm_vector(<<>>, 0, window, ReferenceLength).norms
    IN Returned("sync",
                SyncCorrelationOf(window, norm_vector, args.offset,
                                  NewSequence(args.reference)))

(* the norm vector of the first window of a detector *)
ApplyNorms ==
    Returned("norms",
             update_norm_vector(<<>>, 0, AsInput(args.window), ReferenceLength).norms)

NextFunctions ==
    \/ ApplyTimeDomain
    \/ ApplyDiscriminator
    \/ ApplySync
    \/ ApplyNorms

SpecFunctions == InitFunctions /\ [][NextFunctions]_vars

----------------------------------------------------------------------------
(* The generator of the tests: SimpleTagInserter tags what the source     *)
(* produces, MultiProtocolInserter splices the preambles in               *)

InitGenerator ==
    /\ variant = "time"
    /\ stream = <<>>
    /\ in_finished = FALSE
    /\ consumed = 0
    /\ lanes = [p \in Lanes |-> <<>>]
    /\ tags = [p \in Lanes |-> <<>>]
    /\ current_protocol = 0
    /\ current_index = 0
    /\ absolute_index = 0
    /\ norm_queue = <<>>
    /\ running_sum = 0
    /\ match_log = <<>>
    /\ finished = FALSE
    /\ crashed = "none"
    /\ hits = <<>>
    /\ cls = <<>>
    /\ config = DeclaredConfig
    /\ constructed = "ok"
    /\ InserterConstructed
    /\ args = <<>>
    /\ result = <<>>
    /\ \E interval \in 1..MaxInterval : \E protocols \in TagNameLists :
          tag_inserter = NewSimpleTagInserter(interval, protocols)
    /\ tagged = <<>>
    /\ tag_finished = FALSE
    /\ \E front \in 0..MaxPad : \E tail \in 0..MaxPad :
          protocol_inserter =
              NewMultiProtocolInserter(GeneratorProtocols, front, tail)
    /\ taken = 0
    /\ generated = <<>>
    /\ generator_finished = FALSE

WorkTagInserterCall ==
    \E input \in SourceSlices : \E out_len \in 1..2 : \E in_done \in BOOLEAN :
        WorkTagInserter(input, out_len, in_done)

NextGenerator ==
    \/ WorkTagInserterCall
    \/ WorkProtocolInserter

SpecGenerator == InitGenerator /\ [][NextGenerator]_vars

----------------------------------------------------------------------------
(* Properties *)

RECURSIVE SumOver(_, _)
SumOver(f, S) ==
    IF S = {} THEN 0
    ELSE LET x == CHOOSE y \in S : TRUE IN f[x] + SumOver(f, S \ {x})

(* samples produced so far, over all lanes *)
TotalProduced == SumOver([p \in Lanes |-> Len(lanes[p])], Lanes)

(* the slots <<lane, index>> that hold the sample of stream position x *)
Holders(x) ==
    {s \in Lanes \X (1..MaxStream) :
        /\ s[2] <= Len(lanes[s[1]])
        /\ lanes[s[1]][s[2]].at = x}

(* C1: in every work cycle of the time-domain detector, drain cycles     *)
(* included, the samples produced over all lanes equal the samples       *)
(* consumed in that cycle, and the cycle never ends in exit(1).          *)
C1_ProducedEqualsConsumed ==
    [][variant = "time" =>
          /\ TotalProduced' - TotalProduced = consumed' - consumed
          /\ crashed' # "exit"]_vars

(* C1 witness: the time-domain detector has routed samples to two lanes   *)
(* and has also drained at least one sample.                             *)
C1_Witness ==
    /\ variant = "time"
    /\ crashed = "none"
    /\ lanes[0] # <<>>
    /\ lanes[1] # <<>>
    /\ current_index < consumed

(* C2: after any sequence of work cycles of the time-domain detector,    *)
(* every consumed sample is held, value unchanged, by exactly one slot   *)
(* of exactly one lane, that lane is current_protocol as it was when the *)
(* sample was classified, and the lanes hold nothing else.               *)
C2_ExactlyOneLane ==
    variant = "time" =>
        /\ TotalProduced = consumed
        /\ Len(cls) = consumed
        /\ \A x \in 0..(consumed - 1) :
              /\ Cardinality(Holders(x)) = 1
              /\ \A s \in Holders(x) :
                    /\ lanes[s[1]][s[2]].v = At(stream, x)
                    /\ s[1] = At(cls, x)

(* C2 witness: four or more samples consumed and two lanes in use. *)
C2_Witness ==
    /\ variant = "time"
    /\ consumed >= 4
    /\ lanes[0] # <<>>
    /\ lanes[1] # <<>>

StreamInput == [k \in 1..Len(stream) |-> [v |-> stream[k], at |-> k - 1]]

StreamNorms == calculate_norm_vector(StreamInput, Len(SyncSequence.data))

(* the protocol whose preamble (sync and discriminator) starts at stream *)
(* position y and is followed by at least one sample of burst body      *)
PreambleAt(y) ==
    LET matched == MatchedProtocols(StreamInput, StreamNorms, y, 0)
    IN IF y + total_protocol_length_td < Len(stream) /\ matched # <<>>
       THEN Head(matched) ELSE NoMatch

(* the protocol of the burst that stream position x belongs to: that of *)
(* the latest preamble starting at or before x, the first protocol      *)
(* before any preamble                                                   *)
RECURSIVE BurstOf(_)
BurstOf(x) ==
    IF x < 0 THEN 0
    ELSE IF PreambleAt(x) # NoMatch THEN PreambleAt(x)
    ELSE BurstOf(x - 1)

(* the protocol selected by the latest logged match at or before x *)
RECURSIVE SelectedAt(_, _)
SelectedAt(x, k) ==
    IF k = 0 THEN 0
    ELSE IF hits[k].at <= x THEN hits[k].protocol
    ELSE SelectedAt(x, k - 1)

(* C4, the part that holds: a sample consumed by the time-domain        *)
(* detector is on the lane selected by the latest match at or before    *)
(* its position, so a switch at i sends [i, next switch) to the new     *)
(* lane and leaves the samples before i on the previous lane; and while *)
(* no sample has been drained, each lane holds exactly its own bursts.  *)
C4_SwitchRouting ==
    variant = "time" =>
        /\ \A p \in Lanes : \A k \in DOMAIN lanes[p] :
              SelectedAt(lanes[p][k].at, Len(hits)) = p
        /\ current_index = consumed =>
              \A p \in Lanes : \A k \in DOMAIN lanes[p] :
                  BurstOf(lanes[p][k].at) = p

(* C4: for alternating bursts each lane of the time-domain detector     *)
(* receives exactly its own preambles and burst bodies: every sample on *)
(* lane p belongs to a burst of protocol p.                             *)
C4_NoCrosstalk ==
    variant = "time" =>
        \A p \in Lanes : \A k \in DOMAIN lanes[p] :
            BurstOf(lanes[p][k].at) = p

NewHits == SubSeq(hits', Len(hits) + 1, Len(hits'))

(* C6: current_protocol starts at 0; it changes only in a step in which  *)
(* a protocol different from the current one matches, and then to the    *)
(* protocol matched last; while no protocol other than the first has     *)
(* matched, every consumed sample is on lane 0 and the other lanes are   *)
(* empty.                                                                *)
C6_CurrentProtocolFrame ==
    /\ [](hits = <<>> => current_protocol = 0)
    /\ [][current_protocol' # current_protocol =>
             /\ \E k \in DOMAIN NewHits : NewHits[k].protocol # current_protocol
             /\ NewHits[Len(NewHits)].protocol = current_protocol']_vars
    /\ []((\A k \in DOMAIN hits : hits[k].protocol = 0) =>
             /\ Len(lanes[0]) = consumed
             /\ \A p \in Lanes \ {0} : lanes[p] = <<>>)

(* C6 witness: the detector has left lane 0 for the second protocol      *)
(* after a match, with samples on both lanes.                            *)
C6_Witness ==
    /\ current_protocol = 1
    /\ hits # <<>>
    /\ lanes[0] # <<>>
    /\ lanes[1] # <<>>

(* protocol q matches at stream position x: sync and discriminator for   *)
(* the time-domain detector, the discriminator after the sync hit for    *)
(* the FFT detector                                                      *)
MatchesAt(q, x) ==
    IF variant = "time"
    THEN match_protocol(StreamInput, StreamNorms, x, ProtocolsTD[q])
    ELSE LET seq_start == x + sequence_lengths_fft[1]
             sequence == Protocols[q].sequences[1]
         IN /\ seq_start + Len(sequence.data) <= Len(stream)
            /\ AtLeast(normalized_dot_product(
                           Slice(StreamInput, seq_start, seq_start + Len(sequence.data)),
                           sequence),
                       sequence.thr_num, sequence.thr_den)

(* C7: when several protocols match the same window position, the one   *)
(* declared first is selected, and exactly one log record is written for *)
(* that position.                                                        *)
C7_FirstDeclaredWins ==
    /\ Len(match_log) = Len(hits)
    /\ \A k \in DOMAIN hits :
          /\ match_log[k].name = Protocols[hits[k].protocol].name
          /\ MatchesAt(hits[k].protocol, hits[k].at)
          /\ \A q \in Lanes : q < hits[k].protocol => ~MatchesAt(q, hits[k].at)
          /\ \A j \in DOMAIN hits : j < k => hits[j].at < hits[k].at

(* C7 witness: a logged match of the second protocol at a position where *)
(* the third protocol, declared after it, matches as well.               *)
C7_Witness ==
    \E k \in DOMAIN hits :
        /\ hits[k].protocol = 1
        /\ MatchesAt(2, hits[k].at)

(* C8: a detector sets finished only in a work cycle that starts with    *)
(* the upstream finished and the input buffer empty; so once it is       *)
(* finished, the samples produced over all lanes are the samples it      *)
(* received.                                                             *)
C8_FinishedOnlyWhenDrained ==
    /\ [][(~finished /\ finished') =>
             (in_finished /\ consumed = Len(stream))]_vars
    /\ [](finished =>
             /\ in_finished
             /\ consumed = Len(stream)
             /\ TotalProduced = Len(stream))

(* C8 witness: a detector has finished a stream of five or more samples  *)
(* that it split over two lanes.                                         *)
C8_Witness ==
    /\ finished
    /\ Len(stream) >= 5
    /\ lanes[0] # <<>>
    /\ lanes[1] # <<>>

(* C9: once the upstream is finished, a detector that keeps being called *)
(* with space on its current lane eventually has consumed all input and  *)
(* is finished.                                                          *)
C9_EventuallyFinished ==
    in_finished ~> (finished /\ consumed = Len(stream))

(* C9 witness: a detector has finished after draining a tail of three or *)
(* more samples that its search did not consume.                         *)
C9_Witness ==
    /\ finished
    /\ \/ variant = "time" /\ consumed >= current_index + 3
       \/ variant = "fft" /\ consumed >= absolute_index + 3

(* one slot of output space on every lane *)
OneSlot == [p \in Lanes |-> 1]

(* C10: offered one slot of space per lane, the time-domain detector     *)
(* consumes at least one sample in any work cycle that starts with input *)
(* available.                                                            *)
C10_BackpressureProgress ==
    (variant = "time" /\ ~finished /\ crashed = "none" /\ Len(stream) > consumed)
        => ENABLED (WorkTime(OneSlot) /\ consumed' > consumed)

----------------------------------------------------------------------------
(* C11: no work call of either detector writes or produces more samples  *)
(* on a lane than the space that lane offered at the call (a write past   *)
(* the slice would be a panic), and none consumes more input than the     *)
(* input buffer holds.                                                    *)
C11_WithinSpace ==
    [][\A space \in SpaceChoices :
          (WorkTime(space) \/ WorkFFT(space)) =>
              /\ crashed' # "panic"
              /\ \A p \in Lanes : Len(lanes'[p]) - Len(lanes[p]) <= space[p]
              /\ consumed' <= Len(stream)]_vars

(* C11 witness: a work call of the time-domain detector was bounded by   *)
(* the output space and not by the input: with complete windows in the    *)
(* input it scanned nothing and produced one sample, which it does only   *)
(* when some lane offers at most one slot.                                *)
C11_Witness ==
    /\ variant = "time"
    /\ crashed = "none"
    /\ current_index = 0
    /\ consumed = 1
    /\ Len(lanes[0]) = 1
    /\ Len(stream) - consumed > total_protocol_length_td

----------------------------------------------------------------------------
(* the tags added to lane p by the step to the next state *)
NewTags(p) == SubSeq(tags'[p], Len(tags[p]) + 1, Len(tags'[p]))

(* the protocol that was current when the k-th match of the step was found *)
ProtocolBefore(k) == IF k = 1 THEN current_protocol ELSE NewHits[k - 1].protocol

(* the matches of the step that switch to protocol p *)
SwitchesTo(p) ==
    SelectSeq([k \in DOMAIN NewHits |->
                  [at |-> NewHits[k].at,
                   protocol |-> NewHits[k].protocol,
                   switch |-> NewHits[k].protocol # ProtocolBefore(k)]],
              LAMBDA h : h.switch /\ h.protocol = p)

(* C12: in every work call of the time-domain detector the tags added to *)
(* lane p are, in order, one "<name of p> Start" tag per match that       *)
(* switches current_protocol to p, at index i of the lane's output slice  *)
(* (i the window start of the match in the input slice); a match of the   *)
(* protocol that is already current adds no tag.                          *)
C12_TagPerSwitch ==
    [][\A p \in Lanes :
          NewTags(p) =
              [k \in DOMAIN SwitchesTo(p) |->
                  [index |-> Len(lanes[p]) + (SwitchesTo(p)[k].at - consumed),
                   name |-> p]]]_vars

(* C12 witness: the time-domain detector has tagged lane 1 at a switch,  *)
(* and has also logged a match of the current protocol, which added no    *)
(* tag.                                                                   *)
C12_Witness ==
    /\ variant = "time"
    /\ tags[1] # <<>>
    /\ tags[0] = <<>>
    /\ Len(hits) > Len(tags[1])

(* C13: in every work call of the FFT detector, each match that switches *)
(* current_protocol to a different protocol p adds one tag               *)
(* "<name of p> Start" to lane p.                                         *)
C13_FFTTagOnSwitch ==
    [][variant = "fft" =>
          \A p \in Lanes :
              /\ Len(NewTags(p)) = Len(SwitchesTo(p))
              /\ \A k \in DOMAIN NewTags(p) : NewTags(p)[k].name = p]_vars

(* C14: the FFT detector assigns every input sample to the lane the      *)
(* time-domain detector assigns it to (C4_SwitchRouting): the lane of    *)
(* the latest stream position at or before the sample at which a         *)
(* protocol's sync and discriminator match.                              *)
C14_FFTRoutesAsTimeDomain ==
    variant = "fft" =>
        \A p \in Lanes : \A k \in DOMAIN lanes[p] :
            BurstOf(lanes[p][k].at) = p

----------------------------------------------------------------------------
(* the configurations the construction has to reject: no protocol,        *)
(* protocols whose sequences differ in length, a sync sequence whose      *)
(* length differs from that of the protocols' sequences and, for the FFT  *)
(* detector, a discriminator of odd length or a protocol with more than   *)
(* one discriminator                                                       *)
InvalidConfiguration ==
    LET protocols == config.protocols
    IN \/ protocols = <<>>
       \/ \E a, b \in DOMAIN protocols : protocols[a] # protocols[b]
       \/ /\ config.sync # <<>>
          /\ \E a \in DOMAIN protocols :
                protocols[a] # <<>> /\ protocols[a][1] # config.sync[1]
       \/ /\ variant = "fft"
          /\ \E a \in DOMAIN protocols :
                \/ Len(protocols[a]) > 1
                \/ \E k \in DOMAIN protocols[a] : protocols[a][k] % 2 # 0

(* C15: constructing a detector with an invalid configuration fails: new *)
(* does not return a block.                                               *)
C15_InvalidConfigurationFails ==
    (InvalidConfiguration /\ constructed # "pending") =>
        constructed \in {"invalid", "panic"}

----------------------------------------------------------------------------
(* C16: a work call in which the write of a match-log record fails       *)
(* completes normally: no error is returned from work, and the samples   *)
(* it searched are consumed and produced on the lanes.                    *)
C16_LogFailureNonFatal ==
    [][\A space \in SpaceChoices :
          (WorkTimeLogFails(space) \/ WorkFFTLogFails(space)) =>
              /\ crashed' = "none"
              /\ consumed' > consumed
              /\ TotalProduced' - TotalProduced = consumed' - consumed]_vars

----------------------------------------------------------------------------
(* C17: every match-log record carries the position in the input stream, *)
(* counted from the start of the block, at which its match was found:    *)
(* the window start for the time-domain detector, the position of the    *)
(* sync hit for the FFT detector.                                         *)
C17_LogAbsoluteIndex ==
    /\ Len(match_log) = Len(hits)
    /\ \A k \in DOMAIN match_log :
          /\ match_log[k].index = hits[k].at
          /\ match_log[k].name = hits[k].protocol

----------------------------------------------------------------------------
(* what the output holds for burst b once it is served: the samples of   *)
(* the port from the read position up to the tag, pad_front zeros, the   *)
(* port's sequence, pad_back zeros, and packet_length samples of the     *)
(* port from the tagged one on                                            *)
ExpectedBurst(b) ==
    LET preamble == [k \in 1..pad_front |-> Zero] \o InserterSequences[b.port]
                        \o [k \in 1..pad_back |-> Zero]
    IN [k \in 1..(b.tag - b.from) |-> PortSample(b.port, b.from + k - 1)]
       \o [k \in DOMAIN preamble |->
              [src |-> "sequence", port |-> b.port, at |-> k - 1, v |-> preamble[k]]]
       \o [k \in 1..b.len |-> PortSample(b.port, b.tag + k - 1)]

(* the part of the output written for the k-th burst *)
BurstSegment(k) ==
    SubSeq(output, bursts[k].out_at + 1,
           IF k < Len(bursts) THEN bursts[k + 1].out_at ELSE Len(output))

IsPrefix(a, b) == Len(a) <= Len(b) /\ a = SubSeq(b, 1, Len(a))

(* C18: the output of the MultiPortInserter is the bursts it served, one *)
(* after the other and nothing else: for every tag served, contiguously, *)
(* the samples of the port before the tag, the padded sequence of the    *)
(* port, and packet_length samples of the port, unchanged and in order;  *)
(* of the burst in progress the output holds a prefix of that.           *)
C18_BurstLayout ==
    /\ bursts = <<>> => output = <<>>
    /\ bursts # <<>> => bursts[1].out_at = 0
    /\ \A k \in DOMAIN bursts :
          /\ IsPrefix(BurstSegment(k), ExpectedBurst(bursts[k]))
          /\ (k < Len(bursts) \/ current_port = NoMatch) =>
                BurstSegment(k) = ExpectedBurst(bursts[k])

(* C18 witness: a burst of port 0 with a sample before its tag and two   *)
(* samples after the sequence is complete in the output, and a burst of  *)
(* port 1 follows it.                                                     *)
C18_Witness ==
    /\ Len(bursts) >= 2
    /\ bursts[1].port = 0
    /\ bursts[1].tag > bursts[1].from
    /\ bursts[1].len = 2
    /\ bursts[2].port = 1
    /\ current_port = NoMatch
    /\ ins_crashed = "none"
    /\ Len(output) > Len(ExpectedBurst(bursts[1]))

----------------------------------------------------------------------------
(* C19: a port with a matching tag in its buffer is not passed over: of  *)
(* N ports, at most N - 1 bursts of other ports are served while the tag *)
(* waits, however many tagged bursts the other ports have ready.         *)
C19_RoundRobin ==
    \A p \in Ports : waited[p] <= Cardinality(Ports) - 1

(* C19 witness: port 0 was selected while a tag of port 1 was waiting,   *)
(* then port 1 although port 0 had a tag ready again, then port 0.        *)
C19_Witness ==
    /\ Len(bursts) = 3
    /\ bursts[1].port = 0
    /\ 1 \in bursts[1].behind
    /\ bursts[2].port = 1
    /\ 0 \in bursts[2].behind
    /\ bursts[3].port = 0

----------------------------------------------------------------------------
(* every input lane of the inserter is empty and reported finished *)
LanesDrained ==
    \A p \in Ports : port_len[p] = port_consumed[p] /\ port_finished[p]

(* C20: a work call of the MultiPortInserter sets finished if and only   *)
(* if, at its start, every input lane is empty and finished, and such a  *)
(* call consumes and produces nothing; finished is set by no other step. *)
C20_FinishedIffDrained ==
    /\ [][\A out_len \in OutputSpaceChoices :
             WorkInserter(out_len) =>
                 /\ ins_finished' <=> LanesDrained
                 /\ ins_finished' =>
                       /\ output' = output
                       /\ port_consumed' = port_consumed]_vars
    /\ [][ins_finished' # ins_finished =>
             (LanesDrained /\ ins_finished' /\ output' = output
                 /\ port_consumed' = port_consumed)]_vars

(* C20 witness: the inserter is finished after it served bursts of both  *)
(* ports.                                                                 *)
C20_Witness ==
    /\ ins_finished
    /\ Len(bursts) >= 2
    /\ bursts[1].port # bursts[2].port
    /\ output # <<>>


(* C21: the normalized correlation is 0 whenever the window norm or the  *)
(* norm of the reference sequence is zero, in the time-domain detector   *)
(* and in the discriminator and sync tests of the FFT detector           *)
WindowEnergy ==
    SumNormSqr(SubSeq(args.window, args.offset + 1, args.offset + ReferenceLength))

ReferenceEnergy == SumNormSqr(args.reference)

C21_ZeroNormZeroCorrelation ==
    (/\ result # <<>>
     /\ result[1].fn \in {"time", "discriminator", "sync"}
     /\ (WindowEnergy = 0 \/ ReferenceEnergy = 0))
        => (result[1].value.num = 0 /\ result[1].value.den2 > 0)


(* a step of the time-domain detector that drains: one sample is         *)
(* consumed and no window start was scanned                               *)
DrainStepTD ==
    /\ variant = "time"
    /\ consumed' = consumed + 1
    /\ current_index' = current_index

(* C22: the time-domain detector drains a sample only when the upstream  *)
(* is finished and fewer than a preamble length of input samples remain   *)
(* unconsumed                                                             *)
C22_DrainOnlyBelowPreamble ==
    [][DrainStepTD =>
          /\ in_finished
          /\ Len(stream) - consumed < total_protocol_length_td]_vars


(* C23: a drain cycle of the time-domain detector moves exactly one      *)
(* input sample, the next unconsumed one, to the lane of current_protocol *)
(* and leaves current_protocol unchanged                                  *)
C23_DrainKeepsProtocol ==
    [][DrainStepTD =>
          /\ current_protocol' = current_protocol
          /\ lanes' = [lanes EXCEPT ![current_protocol] =
                          Append(@, [v |-> stream[consumed + 1], at |-> consumed])]
          /\ tags' = tags]_vars

(* the detector has switched to protocol 1 and has drained the stream to *)
(* its end, the last sample into lane 1                                   *)
C23_Witness ==
    /\ variant = "time"
    /\ current_protocol = 1
    /\ in_finished
    /\ consumed = Len(stream)
    /\ lanes[1] # <<>>
    /\ lanes[1][Len(lanes[1])].at = Len(stream) - 1


(* C24: at every work-cycle boundary the absolute index of a detector    *)
(* (current_index in the time-domain detector, absolute_index in the FFT  *)
(* detector) equals the number of input samples consumed since the block  *)
(* started, drained samples included                                      *)
C24_IndexEqualsConsumed ==
    /\ variant = "time" => current_index = consumed
    /\ variant = "fft" => absolute_index = consumed


(* what the windows of an FFT work call find, computed from the input of *)
(* the call: per window start i < upto its sync hit (NoMatch if none),    *)
(* the input offset of the hit, the window start, the norm vector of the *)
(* window, the offsets j of the                                           *)
(* window whose correlation meets the sync threshold, and the protocol    *)
(* whose discriminator follows the hit (NoMatch if none)                  *)
RECURSIVE WindowResults(_, _, _, _, _)
WindowResults(queue, sum, input, i, upto) ==
    IF i >= upto THEN <<>>
    ELSE LET window == Slice(input, i, i + 2 * Len(SyncSequence.data))
             nv == update_norm_vector(queue, sum, window, Len(SyncSequence.data))
             hit == fft_corr_normalized(window, nv.norms)
         IN <<[hit |-> hit,
               at |-> i + hit,
               start |-> i,
               norms |-> nv.norms,
               meeting |-> {j \in 0..(Len(SyncSequence.data) - 1) :
                               AtLeast(SyncCorrelation(window, nv.norms, j),
                                       SyncSequence.thr_num, SyncSequence.thr_den)},
               detected |-> IF hit = NoMatch THEN NoMatch
                            ELSE match_protocols(input, i + hit + Len(SyncSequence.data))]>>
            \o WindowResults(nv.norm_queue, nv.running_sum, input,
                             i + Len(SyncSequence.data), upto)

(* the windows of the step: absolute_index advances by the window starts *)
(* the call went through                                                  *)
StepResults ==
    WindowResults(norm_queue, running_sum, InputSlice(0), 0,
                  absolute_index' - absolute_index)

Matched(results) == SelectSeq(results, LAMBDA r : r.detected # NoMatch)

Unmatched(results) ==
    SelectSeq(results, LAMBDA r : r.hit # NoMatch /\ r.detected = NoMatch)

(* the protocol in effect at input offset x of the step *)
RECURSIVE InEffect(_, _)
InEffect(matched, x) ==
    IF matched = <<>> THEN current_protocol
    ELSE IF matched[Len(matched)].at <= x THEN matched[Len(matched)].detected
    ELSE InEffect(SubSeq(matched, 1, Len(matched) - 1), x)

(* C25: in an FFT work call with a sync hit that no discriminator        *)
(* follows, the hit is discarded: the matches, the log records and        *)
(* current_protocol of the call are those of the hits with a              *)
(* discriminator alone, and the sample at the discarded hit goes to the   *)
(* lane in effect before it                                               *)
C25_UnmatchedSyncDiscarded ==
    [][(variant = "fft" /\ absolute_index' # absolute_index
           /\ Unmatched(StepResults) # <<>>) =>
          LET matched == Matched(StepResults)
          IN /\ Len(NewHits) = Len(matched)
             /\ \A k \in DOMAIN matched :
                   NewHits[k] = [at |-> consumed + matched[k].at,
                                 protocol |-> matched[k].detected]
             /\ Len(match_log') = Len(match_log) + Len(matched)
             /\ current_protocol' = InEffect(matched, Len(stream))
             /\ \A k \in DOMAIN Unmatched(StepResults) :
                   LET x == Unmatched(StepResults)[k].at
                       p == InEffect(matched, x)
                   IN \E n \in DOMAIN lanes'[p] : lanes'[p][n].at = consumed + x]_vars

(* the first window of the FFT detector found the sync sequence at        *)
(* position 1 with no discriminator behind it, and the position has been  *)
(* routed without any match                                               *)
C25_Witness ==
    /\ variant = "fft"
    /\ Len(stream) >= 4
    /\ SubSeq(stream, 1, 4) = <<Zero, J, J, Zero>>
    /\ absolute_index >= 2
    /\ hits = <<>>
    /\ match_log = <<>>
    /\ current_protocol = 0
    /\ Len(lanes[0]) >= 2


(* the step between two windows: step_size = window_length / 2 *)
StepSize == Len(SyncSequence.data)

(* C26: when a window of the FFT detector holds several sync hits, the   *)
(* lowest offset is the one taken, and every later hit position of the    *)
(* window is examined again by a later window: a later window starts at   *)
(* or after the start of this one plus the step, and examines the         *)
(* positions from its start up to its start plus L_sync                   *)
C26_LaterHitsExaminedAgain ==
    [][(variant = "fft" /\ absolute_index' # absolute_index) =>
          \A k \in DOMAIN StepResults :
              LET r == StepResults[k]
              IN r.meeting # {} =>
                    /\ \A j \in r.meeting : r.hit <= j
                    /\ \A j \in r.meeting \ {r.hit} :
                          \E later \in (r.start + StepSize)..Len(stream) :
                              /\ later <= r.start + j
                              /\ r.start + j < later + Len(SyncSequence.data)]_vars


(* C27: window coverage of the FFT detector. Every position the windowed *)
(* search of a work call consumes is i + j for a window start i of the    *)
(* call and a j in [0, L_sync), and no position is skipped between        *)
(* cycles: when a call processes windows, every position consumed before  *)
(* it was covered by a window (absolute_index counts L_sync covered       *)
(* positions per window processed).                                       *)
C27_WindowCoverage ==
    [][(variant = "fft" /\ absolute_index' # absolute_index) =>
          /\ consumed = absolute_index
          /\ \A x \in 0..(absolute_index' - absolute_index - 1) :
                \E k \in DOMAIN StepResults :
                    \E j \in 0..(Len(SyncSequence.data) - 1) :
                        x = StepResults[k].start + j]_vars


(* C28: no work call of the FFT detector reaches the panic of            *)
(* match_protocols or reads the input out of range: for every window the  *)
(* loop processes the window lies within the input, and for every sync    *)
(* hit the discriminator behind it does, seq_start + L_disc <= |input|    *)
C28_DiscriminatorInRange ==
    [][variant = "fft" =>
          /\ crashed' # "panic"
          /\ absolute_index' # absolute_index =>
                \A k \in DOMAIN StepResults :
                    LET r == StepResults[k]
                    IN /\ r.start + 2 * Len(SyncSequence.data) <= Len(InputSlice(0))
                       /\ r.hit # NoMatch =>
                             r.at + Len(SyncSequence.data) + sequence_lengths_fft[1]
                                 <= Len(InputSlice(0))]_vars

(* a match at the last offset of the last window that the input allowed *)
C28_Witness ==
    /\ variant = "fft"
    /\ crashed = "none"
    /\ hits # <<>>
    /\ hits[Len(hits)].at % Len(SyncSequence.data) = 1
    /\ hits[Len(hits)].at + 3 * Len(SyncSequence.data) = Len(stream)
    /\ consumed = absolute_index
    /\ consumed > hits[Len(hits)].at


(* C29: once the FFT detector has seen its first window, running_sum is  *)
(* the sum of the entries of norm_queue and norm_queue holds exactly      *)
(* L_sync entries                                                         *)
C29_RunningSumInvariant ==
    (variant = "fft" /\ absolute_index > 0) =>
        /\ Len(norm_queue) = Len(SyncSequence.data)
        /\ running_sum = SumSeq(norm_queue)

(* several windows have been seen, samples with and without energy have *)
(* gone through the queue                                                 *)
C29_Witness ==
    /\ variant = "fft"
    /\ absolute_index >= 2 * StepSize
    /\ running_sum = 1
    /\ \E k \in 1..absolute_index : stream[k] = J
    /\ \E k \in 1..absolute_index : stream[k] = Zero


(* C30: every entry j of the norm vector the FFT detector uses for a     *)
(* window is the square root of the energy of the L_sync samples from     *)
(* offset j, entry 0 of the first window after block start included       *)
C30_NormsRooted ==
    (result # <<>> /\ result[1].fn = "norms") =>
        \A j \in 0..(Len(result[1].value) - 1) :
            /\ At(result[1].value, j).rooted
            /\ At(result[1].value, j).sq =
                   SumNormSqr(SubSeq(args.window, j + 1, j + ReferenceLength))


(* C31: for every window start i the FFT detector processes, in every    *)
(* work call, entry j of the norm vector is the energy of exactly the     *)
(* samples input[i + j .. i + j + L_sync), for each j in [0, L_sync): the *)
(* queue carried across windows and calls stays aligned with the stream   *)
C31_NormsAligned ==
    [][(variant = "fft" /\ absolute_index' # absolute_index) =>
          \A k \in DOMAIN StepResults :
              LET r == StepResults[k]
              IN \A j \in 0..(Len(SyncSequence.data) - 1) :
                    At(r.norms, j).sq =
                        SumNormSqr(Values(Slice(InputSlice(0), r.start + j,
                                                r.start + j + Len(SyncSequence.data))))]_vars


----------------------------------------------------------------------------
(* the phase an output item of burst b was written in: 1 the copy of the *)
(* samples in front of the tag, 2 the insertion of the padded sequence,   *)
(* 3 the copy of the samples from the tagged one on                       *)
PhaseOf(b, x) ==
    IF x.src = "sequence" THEN 2
    ELSE IF x.at < b.tag THEN 1 ELSE 3

CountPhase(b, seg, ph) ==
    Cardinality({n \in DOMAIN seg : PhaseOf(b, seg[n]) = ph})

(* C32: within every burst of the MultiPortInserter, over all work calls *)
(* it takes, the output is written phase by phase: no item of the padded  *)
(* sequence before all samples in front of the tag are copied, and no     *)
(* sample from the tag on before the whole padded sequence is out         *)
C32_PhaseOrder ==
    \A k \in DOMAIN bursts :
        LET b == bursts[k]
            seg == BurstSegment(k)
        IN /\ \A m, n \in DOMAIN seg :
                 m < n => PhaseOf(b, seg[m]) <= PhaseOf(b, seg[n])
           /\ CountPhase(b, seg, 2) > 0 => CountPhase(b, seg, 1) = b.tag - b.from
           /\ CountPhase(b, seg, 3) > 0 =>
                 CountPhase(b, seg, 2) = pad_front + Len(InserterSequences[b.port]) + pad_back

(* a burst with a sample in front of its tag is held up in the middle of *)
(* its sequence by a full output and goes on in a later call              *)
C32_Witness ==
    /\ bursts # <<>>
    /\ bursts[Len(bursts)].tag > bursts[Len(bursts)].from
    /\ bursts[Len(bursts)].len > 0
    /\ current_port # NoMatch
    /\ inserting_sequence
    /\ sequence_index = 1
    /\ ins_crashed = "none"


(* C33: in every state of the MultiPortInserter sequence_index is at     *)
(* most the length of the padded sequence and samples_after_sequence at   *)
(* most packet_length; and while no port is current all fields of the     *)
(* burst are reset                                                        *)
C33_BurstFieldsBounded ==
    /\ \A p \in Ports : sequence_index <= Len(padded_sequences[p])
    /\ samples_after_sequence <= packet_length
    /\ current_port = NoMatch =>
          /\ inserting_sequence = FALSE
          /\ sequence_index = 0
          /\ packet_length = 0
          /\ consumed_input = 0
          /\ insertion_index = 0
          /\ samples_after_sequence = 0

(* a burst has been carried through and reset after bursts were held up  *)
(* in their sequence and in their remaining copy                          *)
C33_Witness ==
    /\ current_port = NoMatch
    /\ Len(bursts) >= 2
    /\ bursts[1].len = 2
    /\ bursts[1].tag > bursts[1].from
    /\ Len(output) >= Len(ExpectedBurst(bursts[1])) + 1
    /\ ins_crashed = "none"


----------------------------------------------------------------------------
(* the orders of three ports and what "Update port order" has to make of *)
(* them                                                                   *)
ThreePortOrders ==
    {o \in [1..3 -> 0..2] : \A a, b \in 1..3 : a # b => o[a] # o[b]}

Without(order, p) == SelectSeq(order, LAMBDA q : q # p)

IsPermutationOf(order, S) ==
    /\ Len(order) = Cardinality(S)
    /\ {order[k] : k \in DOMAIN order} = S

(* the port a step of the inserter selects: the port of the burst it starts *)
SelectedNow == bursts'[Len(bursts')].port

(* C34: port_order is always a permutation of the port indices; a work   *)
(* call that selects a port selects the earliest port of port_order with  *)
(* a matching tag in its buffer and moves it to the back of port_order,   *)
(* the other ports keeping their relative order (for the two ports of     *)
(* the inserter, and for "Update port order" on every order of three      *)
(* ports); no other step changes port_order                               *)
C34_PortOrder ==
    /\ [](IsPermutationOf(port_order, Ports))
    /\ [](\A o \in ThreePortOrders : \A p \in 0..2 :
             /\ IsPermutationOf(UpdatePortOrder(o, p), 0..2)
             /\ UpdatePortOrder(o, p) = Append(Without(o, p), p))
    /\ [][IF Len(bursts') > Len(bursts)
          THEN /\ current_port = NoMatch
               /\ port_tags[SelectedNow] # <<>>
               /\ \A k \in DOMAIN port_order :
                     port_order[k] = SelectedNow =>
                         \A m \in 1..(k - 1) : port_tags[port_order[m]] = <<>>
               /\ port_order'[Len(port_order')] = SelectedNow
               /\ Without(port_order', SelectedNow) = Without(port_order, SelectedNow)
          ELSE port_order' = port_order]_vars

(* port 1 was selected from the back of port_order while port 0 had no   *)
(* tag, then port 0, and port 1 is at the front again                      *)
C34_Witness ==
    /\ Len(bursts) = 2
    /\ bursts[1].port = 1
    /\ bursts[1].behind = {}
    /\ bursts[2].port = 0
    /\ port_order = <<1, 0>>


(* C35: no work call of the MultiPortInserter reads past the samples of  *)
(* the current port or writes past the free output space: none reaches    *)
(* an out-of-range slice, and what a call consumes and produces fits the  *)
(* input and the output it was given                                      *)
C35_InserterInRange ==
    [][\A out_len \in OutputSpaceChoices :
          WorkInserter(out_len) =>
              /\ ins_crashed' # "panic"
              /\ Len(output') - Len(output) <= out_len
              /\ \A p \in Ports : port_consumed'[p] <= port_len[p]]_vars


(* C36: each trigger tag of a MultiPortInserter input starts exactly one *)
(* burst, whatever its packet_length: no two bursts are started by the    *)
(* same tag of the same port                                              *)
C36_OneBurstPerTag ==
    \A m, n \in DOMAIN bursts :
        (m # n /\ bursts[m].port = bursts[n].port) => bursts[m].tag # bursts[n].tag


(* C37: once every input lane of the MultiPortInserter is finished, and  *)
(* with work called again and again with output space, the inserter       *)
(* eventually has consumed every buffered input sample and is finished    *)
C37_InserterEventuallyFinished ==
    (\A p \in Ports : port_finished[p])
        ~> (ins_finished /\ \A p \in Ports : port_consumed[p] = port_len[p])


----------------------------------------------------------------------------
ZeroPadding(n) == [i \in 1..n |-> Zero]

(* the sequences of the configured protocols that a tag of the sample names *)
NamedSequences(sample) ==
    {GeneratorProtocols[k].sequence :
        k \in {m \in DOMAIN GeneratorProtocols :
                  \E t \in DOMAIN sample.tags :
                      sample.tags[t].name = GeneratorProtocols[m].name}}

(* what belongs in front of a sample: nothing, or the padded sequence of   *)
(* the protocol its tag names                                              *)
PreambleOf(sample) ==
    IF NamedSequences(sample) = {} THEN <<>>
    ELSE ZeroPadding(protocol_inserter.pad_front)
            \o (CHOOSE s \in NamedSequences(sample) : TRUE)
            \o ZeroPadding(protocol_inserter.pad_tail)

(* the samples in their order, each tagged one behind its preamble *)
RECURSIVE ExpectedOutput(_)
ExpectedOutput(samples) ==
    IF samples = <<>> THEN <<>>
    ELSE LET last == samples[Len(samples)]
         IN  ExpectedOutput(SubSeq(samples, 1, Len(samples) - 1))
                \o PreambleOf(last) \o <<last.value>>

(* the output of MultiProtocolInserter is made of its input samples, in    *)
(* order and unchanged, with the padded sequence in front of each tagged   *)
(* one and nothing else                                                    *)
GeneratedAsExpected ==
    /\ IsPrefix(generated, ExpectedOutput(tagged))
    /\ IsPrefix(ExpectedOutput(SubSeq(tagged, 1, taken)), generated)

(* C39: MultiProtocolInserter puts pad_front zeros, the protocol's         *)
(* sequence and pad_tail zeros immediately before every input sample whose *)
(* tag names a configured protocol, inserts nothing anywhere else, and     *)
(* passes every input sample through unchanged and in order: when it has   *)
(* finished no sample of its input is missing                              *)
C39_SplicedBeforeTagged ==
    protocol_inserter # <<>> =>
        /\ GeneratedAsExpected
        /\ generator_finished => taken = Len(tagged)

====
